---------------------------- MODULE Spec2Model ----------------------------
(***************************************************************************)
(* FunChat API gateway (Cloudflare Worker).                                *)
(*                                                                         *)
(* Two workers are modelled:                                               *)
(*   - the extended gateway of src/src/integrations/supabase/types.ts      *)
(*     (lines 845-1836): API-key route, user-session route, rate limiter,  *)
(*     access policy;                                                      *)
(*   - the basic gateway of src/public/cloudflare-worker/funchat-gateway.ts *)
(*     (definitions prefixed W_).                                          *)
(*                                                                         *)
(* Text (paths, origins, API keys, salts) is a sequence of one-character   *)
(* strings, so that startsWith / endsWith / substring / split are computed *)
(* character by character as the code computes them.  A nullable value is *)
(* None (the empty tuple) or Some(v) (a one-element tuple).                *)
(***************************************************************************)
EXTENDS Integers, Sequences, FiniteSets, TLC

(***************************************************************************)
(* Bounds of the model.                                                    *)
(***************************************************************************)
\* requests handled in one behaviour of a sequential specification
MaxRequests == 2

\* handlers the concurrent specification starts (all may be in flight at once)
MaxConcurrent == 3

\* clock advances in one behaviour
MaxTicks == 1

\* labels in the host of an origin handed to isOriginAllowed on its own
MaxLabels == 3

\* rows inserted into table messages in one behaviour
MaxRows == 2

\* stream requests in one behaviour of a session specification
MaxStreamRequests == 1

\* send calls of the client adapter in one behaviour, retries included
MaxSends == 2

(***************************************************************************)
(* Program constants.                                                      *)
(***************************************************************************)
CACHE_TTL == 300
RATE_LIMIT_WINDOW == 3600
USER_RATE_LIMIT == 1000
DEFAULT_KEY_RATE_LIMIT == 1000
KEY_PREFIX_LEN == 12
SSE_HEARTBEAT_INTERVAL == 15000
SSE_POLL_INTERVAL == 2000
SSE_MAX_DURATION == 25000
SSE_FETCH_LIMIT == 50
MAX_RECONNECT_ATTEMPTS == 5
SSE_FAILURE_THRESHOLD == 3
POLL_LIST_LIMIT == 20

None == <<>>
Some(v) == <<v>>
IsSome(o) == Len(o) = 1
Val(o) == o[1]

(***************************************************************************)
(* Text helpers: String.prototype.startsWith / endsWith / substring /      *)
(* slice / replace / split / trim, on sequences of characters.             *)
(***************************************************************************)
StartsWith(s, p) ==
    /\ Len(p) <= Len(s)
    /\ SubSeq(s, 1, Len(p)) = p

EndsWith(s, p) ==
    /\ Len(p) <= Len(s)
    /\ SubSeq(s, Len(s) - Len(p) + 1, Len(s)) = p

\* s.substring(0, n)
Substring0(s, n) == SubSeq(s, 1, IF n < Len(s) THEN n ELSE Len(s))

\* s.slice(n)
SliceFrom(s, n) == SubSeq(s, n + 1, Len(s))

\* index (1-based) of the first occurrence of p in s, 0 when there is none
IndexOf(s, p) ==
    LET hits == {i \in 1..(Len(s) - Len(p) + 1) : SubSeq(s, i, i + Len(p) - 1) = p}
    IN  IF hits = {} THEN 0 ELSE CHOOSE i \in hits : \A j \in hits : i <= j

\* s.replace(p, r) with a string pattern: the first occurrence only
ReplaceFirst(s, p, r) ==
    LET i == IndexOf(s, p)
    IN  IF i = 0 THEN s
        ELSE SubSeq(s, 1, i - 1) \o r \o SubSeq(s, i + Len(p), Len(s))

RECURSIVE TrimLeft(_)
TrimLeft(s) == IF Len(s) > 0 /\ s[1] = " " THEN TrimLeft(Tail(s)) ELSE s

RECURSIVE TrimRight(_)
TrimRight(s) ==
    IF Len(s) > 0 /\ s[Len(s)] = " " THEN TrimRight(SubSeq(s, 1, Len(s) - 1)) ELSE s

Trim(s) == TrimRight(TrimLeft(s))

\* s.split(','): the pieces between commas, empty pieces included
RECURSIVE SplitComma(_)
SplitComma(s) ==
    LET i == IndexOf(s, <<",">>)
    IN  IF i = 0 THEN <<s>>
        ELSE <<SubSeq(s, 1, i - 1)>> \o SplitComma(SubSeq(s, i + 1, Len(s)))

\* arr.filter(Boolean) on strings: the empty string is dropped
RECURSIVE FilterNonEmpty(_)
FilterNonEmpty(arr) ==
    IF arr = <<>> THEN <<>>
    ELSE (IF Head(arr) = <<>> THEN <<>> ELSE <<Head(arr)>>) \o FilterNonEmpty(Tail(arr))

\* arr.includes(x) / arr.some(P) range over the elements of the array
Includes(arr, x) == \E i \in 1..Len(arr) : arr[i] = x

(***************************************************************************)
(* Text constants of the program and of the modelled inputs.               *)
(***************************************************************************)
S_fc_live ==
    <<"f", "c", "_", "l", "i", "v", "e", "_">>
S_fc_test ==
    <<"f", "c", "_", "t", "e", "s", "t", "_">>
S_api_chat ==
    <<"/", "a", "p", "i", "-", "c", "h", "a", "t">>
S_api_users ==
    <<"/", "a", "p", "i", "-", "u", "s", "e", "r", "s">>
S_api_calls ==
    <<"/", "a", "p", "i", "-", "c", "a", "l", "l", "s">>
S_api_crypto ==
    <<"/", "a", "p", "i", "-", "c", "r", "y", "p", "t", "o">>
S_api_webhooks ==
    <<"/", "a", "p", "i", "-", "w", "e", "b", "h", "o", "o", "k", "s">>
S_v1_me ==
    <<"/", "v", "1", "/", "m", "e">>
S_v1_profiles ==
    <<"/", "v", "1", "/", "p", "r", "o", "f", "i", "l", "e", "s">>
S_v1_conversations ==
    <<"/", "v", "1", "/", "c", "o", "n", "v", "e", "r", "s", "a", "t", "i", "o", "n", "s">>
S_v1_messages ==
    <<"/", "v", "1", "/", "m", "e", "s", "s", "a", "g", "e", "s">>
S_v1_users ==
    <<"/", "v", "1", "/", "u", "s", "e", "r", "s">>
S_v1_reactions ==
    <<"/", "v", "1", "/", "r", "e", "a", "c", "t", "i", "o", "n", "s">>
S_v1_read_receipts ==
    <<"/", "v", "1", "/", "r", "e", "a", "d", "-", "r", "e", "c", "e", "i", "p", "t", "s">>
S_v1_media ==
    <<"/", "v", "1", "/", "m", "e", "d", "i", "a">>
S_v1_rewards ==
    <<"/", "v", "1", "/", "r", "e", "w", "a", "r", "d", "s">>
S_health ==
    <<"/", "h", "e", "a", "l", "t", "h">>
S_root ==
    <<"/">>
S_https ==
    <<"h", "t", "t", "p", "s", ":", "/", "/">>
S_http ==
    <<"h", "t", "t", "p", ":", "/", "/">>
Key1 ==
    <<"f", "c", "_", "l", "i", "v", "e", "_", "a", "b", "c", "d", "x", "y">>
Key1TailMutated ==
    <<"f", "c", "_", "l", "i", "v", "e", "_", "a", "b", "c", "d", "x", "z">>
Key1PrefixMutated ==
    <<"f", "c", "_", "l", "i", "v", "e", "_", "a", "b", "c", "e", "x", "y">>
Key2 ==
    <<"f", "c", "_", "t", "e", "s", "t", "_", "a", "b", "c", "d", "x", "y">>
KeyBadFormat ==
    <<"s", "k", "_", "l", "i", "v", "e", "_", "a", "b", "c", "d", "x", "y">>
PathChatMessages ==
    <<"/", "a", "p", "i", "-", "c", "h", "a", "t", "/", "m", "e", "s", "s", "a", "g", "e", "s">>
PathV1Profiles ==
    <<"/", "v", "1", "/", "p", "r", "o", "f", "i", "l", "e", "s">>
S_stream ==
    <<"/", "s", "t", "r", "e", "a", "m">>
ConversationC1 == <<"C", "1">>
PathStreamC1 == S_v1_conversations \o <<"/">> \o ConversationC1 \o S_stream
OriginApp ==
    <<"h", "t", "t", "p", "s", ":", "/", "/", "a", "p", "p", ".", "e", "x", "a", "m", "p", "l", "e", ".", "c", "o", "m">>
OriginApex ==
    <<"h", "t", "t", "p", "s", ":", "/", "/", "e", "x", "a", "m", "p", "l", "e", ".", "c", "o", "m">>
OriginEvilSuffix ==
    <<"h", "t", "t", "p", "s", ":", "/", "/", "e", "x", "a", "m", "p", "l", "e", ".", "c", "o", "m", ".", "e", "v", "i", "l", ".", "o", "r", "g">>
OriginEvilPrefix ==
    <<"h", "t", "t", "p", "s", ":", "/", "/", "e", "v", "i", "l", "e", "x", "a", "m", "p", "l", "e", ".", "c", "o", "m">>
OriginAppPort ==
    <<"h", "t", "t", "p", "s", ":", "/", "/", "a", "p", "p", ".", "e", "x", "a", "m", "p", "l", "e", ".", "c", "o", "m", ":", "8", "4", "4", "3">>
OriginOther ==
    <<"h", "t", "t", "p", "s", ":", "/", "/", "e", "v", "i", "l", ".", "o", "r", "g">>
WildcardExample ==
    <<"*", ".", "e", "x", "a", "m", "p", "l", "e", ".", "c", "o", "m">>
Salt1 ==
    <<"s", "1">>
Salt2 ==
    <<"s", "2">>

(***************************************************************************)
(* Tables of the extended gateway.                                         *)
(***************************************************************************)
\* ENDPOINT_SCOPES, in insertion order (Object.entries order)
ENDPOINT_SCOPES ==
    << [endpoint |-> S_api_chat,
        methods  |-> ("GET" :> "chat:read") @@ ("POST" :> "chat:write") @@
                     ("PUT" :> "chat:write") @@ ("PATCH" :> "chat:write") @@
                     ("DELETE" :> "chat:write")],
       [endpoint |-> S_api_users,
        methods  |-> ("GET" :> "users:read") @@ ("POST" :> "users:write") @@
                     ("PUT" :> "users:write") @@ ("PATCH" :> "users:write")],
       [endpoint |-> S_api_calls,
        methods  |-> ("GET" :> "calls:read") @@ ("POST" :> "calls:write") @@
                     ("PUT" :> "calls:write") @@ ("PATCH" :> "calls:write")],
       [endpoint |-> S_api_crypto,
        methods  |-> ("GET" :> "crypto:read") @@ ("POST" :> "crypto:write")],
       [endpoint |-> S_api_webhooks,
        methods  |-> ("GET" :> "webhooks:read") @@ ("POST" :> "webhooks:write") @@
                     ("PUT" :> "webhooks:write") @@ ("PATCH" :> "webhooks:write") @@
                     ("DELETE" :> "webhooks:write")] >>

USER_ROUTES ==
    << S_v1_me, S_v1_profiles, S_v1_conversations, S_v1_messages, S_v1_users,
       S_v1_reactions, S_v1_read_receipts, S_v1_media, S_v1_rewards >>

PUBLIC_ROUTES == << S_health, S_root >>

\* the scope list handleUserRoute grants every session user
USER_SCOPES ==
    << "chat:read", "chat:write", "users:read", "users:write",
       "rewards:read", "rewards:write" >>

(***************************************************************************)
(* Pure functions of the extended gateway.                                 *)
(***************************************************************************)
\* SHA-256 as an ideal (collision-free) hash: the digest names its preimage
Sha256(bytes) == <<"sha256", bytes>>

\* hashApiKey(key, salt) = hex(SHA-256(key + salt))
hashApiKey(key, salt) == Sha256(key \o salt)

\* envAllowed?.split(',').map(o => o.trim()).filter(Boolean) || []
EnvOrigins(envAllowed) ==
    IF ~IsSome(envAllowed) THEN <<>>
    ELSE LET parts == SplitComma(Val(envAllowed))
         IN  FilterNonEmpty([i \in 1..Len(parts) |-> Trim(parts[i])])

\* mutant: a wildcard entry matches when the origin contains its domain
OriginMatchesEntry_Contains(origin, allowed) ==
    IF allowed = <<"*">> THEN TRUE
    ELSE IF StartsWith(allowed, <<"*", ".">>)
         THEN LET domain == SliceFrom(allowed, 2)
              IN  \E k \in 1..Len(origin) :
                      /\ k + Len(domain) - 1 <= Len(origin)
                      /\ SubSeq(origin, k, k + Len(domain) - 1) = domain
         ELSE origin = allowed

\* the callback of allAllowed.some(...) in isOriginAllowed
OriginMatchesEntry(origin, allowed) ==
    IF allowed = <<"*">> THEN TRUE
    ELSE IF StartsWith(allowed, <<"*", ".">>)
         THEN LET domain == SliceFrom(allowed, 2)
              IN  \/ EndsWith(origin, domain)
                  \/ origin = S_https \o domain
                  \/ origin = S_http \o domain
         ELSE origin = allowed

\* mutant: env.ALLOWED_ORIGINS is not merged into the list
isOriginAllowed_IgnoresEnv(origin, allowedOrigins, envAllowed) ==
    IF Len(allowedOrigins) = 0 THEN TRUE
    ELSE IF ~IsSome(origin) \/ origin = Some(<<>>) THEN FALSE
    ELSE \E i \in 1..Len(allowedOrigins) : OriginMatchesEntry(Val(origin), allowedOrigins[i])

\* isOriginAllowed(origin, allowedOrigins, envAllowed); origin is nullable
isOriginAllowed(origin, allowedOrigins, envAllowed) ==
    LET allAllowed == allowedOrigins \o EnvOrigins(envAllowed)
    IN  IF Len(allAllowed) = 0 THEN TRUE
        ELSE IF ~IsSome(origin) \/ origin = Some(<<>>) THEN FALSE
        ELSE \E i \in 1..Len(allAllowed) : OriginMatchesEntry(Val(origin), allAllowed[i])

isUserRoute(pathname) ==
    \E i \in 1..Len(USER_ROUTES) : StartsWith(pathname, USER_ROUTES[i])

isPublicRoute(pathname) == Includes(PUBLIC_ROUTES, pathname)

\* Date.now(), in milliseconds, when the clock reads t seconds
DateNow(t) == t * 1000

\* generateRequestId(): `req_${Date.now()}_${Math.random()...}`; rand is the
\* text Math.random().toString(36).substring(2, 9) came to
generateRequestId(t, rand) == <<"req", DateNow(t), rand>>

\* url.pathname.match(/^\/v1\/conversations\/([^/]+)\/stream$/): the
\* conversation id, or None
StreamConversation(pathname) ==
    LET head == S_v1_conversations \o <<"/">>
        id == SubSeq(pathname, Len(head) + 1, Len(pathname) - Len(S_stream))
    IN  IF /\ StartsWith(pathname, head)
           /\ EndsWith(pathname, S_stream)
           /\ Len(pathname) > Len(head) + Len(S_stream)
           /\ \A k \in 1..Len(id) : id[k] # "/"
        THEN Some(id) ELSE None

\* mutant: the method is ignored, every request is treated as a GET
getRequiredScope_MethodBlind(pathname, method) ==
    LET hits == {i \in 1..Len(ENDPOINT_SCOPES) :
                    StartsWith(pathname, ENDPOINT_SCOPES[i].endpoint)}
    IN  IF hits = {} THEN None
        ELSE LET i == CHOOSE k \in hits : \A j \in hits : k <= j
             IN  Some(ENDPOINT_SCOPES[i].methods["GET"])

\* getRequiredScope(pathname, method): the first endpoint the path starts with
\* decides; a method it does not list requires no scope
getRequiredScope(pathname, method) ==
    LET hits == {i \in 1..Len(ENDPOINT_SCOPES) :
                    StartsWith(pathname, ENDPOINT_SCOPES[i].endpoint)}
    IN  IF hits = {} THEN None
        ELSE LET i == CHOOSE k \in hits : \A j \in hits : k <= j
                 methods == ENDPOINT_SCOPES[i].methods
             IN  IF method \in DOMAIN methods THEN Some(methods[method]) ELSE None

(***************************************************************************)
(* State.                                                                  *)
(***************************************************************************)
VARIABLES
    now,          \* wall clock, in seconds (Date.now() / 1000)
    ticks,        \* clock advances taken so far
    apiKeys,      \* identity store: the rows of table api_keys
    keyCache,     \* env.API_KEY_CACHE: lookup prefix -> [data, expiresAt]
    rateLimit,    \* env.RATE_LIMIT: <<identifier, windowStart>> -> [count, resetAt, expiresAt]
    envAllowed,   \* env.ALLOWED_ORIGINS (nullable text)
    reqs,         \* the request handlers started so far, by request number
    backendLog,   \* the requests that reached the backing edge functions
    probe,        \* the application of a pure function under examination
    streams,      \* the SSE sessions of handleSSEStream, by request number
    messageRows,  \* identity store: the rows of table messages of the conversation
    adapter       \* the client adapter (useMessages) of one conversation view

vars == <<now, ticks, apiKeys, keyCache, rateLimit, envAllowed, reqs, backendLog, probe,
          streams, messageRows, adapter>>

(***************************************************************************)
(* Headers: a function from lower-case header name to value.               *)
(***************************************************************************)
HeadersGet(h, name) == IF name \in DOMAIN h THEN Some(h[name]) ELSE None

HeadersSet(h, name, v) ==
    [x \in (DOMAIN h) \cup {name} |-> IF x = name THEN v ELSE h[x]]

HeadersDelete(h, name) == [x \in (DOMAIN h) \ {name} |-> h[x]]

NoHeaders == [x \in {} |-> <<>>]

\* JavaScript truthiness of a nullable text: null and '' are falsy
Truthy(o) == IsSome(o) /\ Val(o) # <<>>

(***************************************************************************)
(* Responses.                                                              *)
(***************************************************************************)
\* errorResponse(code, message, status, requestId, origin || undefined)
errorResponse(code, message, status, requestId, origin) ==
    [ kind |-> "envelope", ok |-> FALSE, status |-> status, code |-> code,
      message |-> message, requestId |-> Some(requestId),
      acao |-> IF Truthy(origin) THEN origin ELSE None,
      limit |-> None, remaining |-> None, reset |-> None, retryAfter |-> None ]

\* successResponse(data, requestId, origin || undefined)
successResponse(requestId, origin) ==
    [ kind |-> "envelope", ok |-> TRUE, status |-> 200, code |-> "OK",
      message |-> <<>>, requestId |-> Some(requestId),
      acao |-> IF Truthy(origin) THEN origin ELSE None,
      limit |-> None, remaining |-> None, reset |-> None, retryAfter |-> None ]

\* the 204 answer to OPTIONS (fetch, "Handle CORS preflight")
preflightResponse(origin, env) ==
    LET corsOrigin == IF isOriginAllowed(origin, <<>>, env) THEN origin ELSE None
    IN  [ kind |-> "preflight", ok |-> TRUE, status |-> 204, code |-> "OK",
          message |-> <<>>, requestId |-> None,
          acao |-> IF Truthy(corsOrigin) THEN corsOrigin ELSE Some(<<"*">>),
          limit |-> None, remaining |-> None, reset |-> None, retryAfter |-> None ]

\* the 429 answer of handleApiKeyRoute / handleUserRoute
rateLimitedResponse(requestId, origin, limit, resetAt, t) ==
    [ errorResponse("RATE_LIMITED", <<"Rate limit exceeded">>, 429, requestId, origin)
        EXCEPT !.limit = Some(limit), !.remaining = Some(0),
               !.reset = Some(resetAt), !.retryAfter = Some(resetAt - t) ]

\* the backend's answer re-headered by handleApiKeyRoute / handleUserRoute
proxiedResponse(status, requestId, origin, limit, remaining, resetAt) ==
    [ kind |-> "proxied", ok |-> status < 400, status |-> status, code |-> "BACKEND",
      message |-> <<>>, requestId |-> Some(requestId),
      acao |-> IF Truthy(origin) THEN origin ELSE None,
      limit |-> Some(limit), remaining |-> Some(remaining),
      reset |-> Some(resetAt), retryAfter |-> None ]

\* an exception that leaves fetch(): the runtime answers, not the gateway
uncaughtResponse ==
    [ kind |-> "uncaught", ok |-> FALSE, status |-> 500, code |-> "UNCAUGHT",
      message |-> <<>>, requestId |-> None, acao |-> None,
      limit |-> None, remaining |-> None, reset |-> None, retryAfter |-> None ]

(***************************************************************************)
(* Session tokens (verifyAuthHeader, parseJwt).                            *)
(* An Authorization header is [scheme, token]; a token is                  *)
(* [wellFormed, exp, sub]: wellFormed says that it has three segments with *)
(* decodable header and claims, exp = 0 stands for a missing exp claim.    *)
(***************************************************************************)
ServiceKeyAuth ==
    [scheme |-> "Bearer", token |-> [wellFormed |-> TRUE, exp |-> 0, sub |-> "service_role"]]

\* verifyAuthHeader(authHeader): the payload's subject, or None
verifyAuthHeader(authHeader, t) ==
    IF ~IsSome(authHeader) \/ Val(authHeader).scheme # "Bearer" THEN None
    ELSE LET token == Val(authHeader).token
         IN  IF ~token.wellFormed THEN None
             ELSE IF token.exp # 0 /\ token.exp < t THEN None
             ELSE Some(token.sub)

(***************************************************************************)
(* Rate limiter (checkRateLimit).                                          *)
(***************************************************************************)
\* mutant: one window for all time
WindowStart_Never(t) == 0

WindowStart(t) == t - (t % RATE_LIMIT_WINDOW)

\* env.RATE_LIMIT.get(key, 'json'): data?.count || 0; an expired entry is gone
RateLimitCount(store, key, t) ==
    IF key \in DOMAIN store /\ t < store[key].expiresAt THEN store[key].count ELSE 0

\* the locals checkRateLimit computes before its first await
RateLimitLocals(identifier, limit, t) ==
    [ identifier |-> identifier, limit |-> limit, now |-> t,
      windowStart |-> WindowStart(t), resetAt |-> WindowStart(t) + RATE_LIMIT_WINDOW,
      count |-> 0 ]

\* if (count >= limit) return { allowed: false, ... }
RateLimitAllowed(count, limit) == ~(count >= limit)

\* mutant: remaining counted before the increment
RateLimitRemaining_OffByOne(count, limit) == limit - count

\* remaining of an admitted call
RateLimitRemaining(count, limit) == limit - count - 1

NoRateLimit ==
    [ identifier |-> <<"none", "">>, limit |-> 0, now |-> 0, windowStart |-> 0,
      resetAt |-> 0, count |-> 0 ]

(***************************************************************************)
(* Access policy of the API-key route.                                     *)
(***************************************************************************)
\* keyData.expires_at && new Date(keyData.expires_at) < new Date()
KeyExpired(keyData, t) == IsSome(keyData.expires_at) /\ Val(keyData.expires_at) < t

\* mutant: the expiry check runs before the activation check
PolicyError_ExpiryFirst(keyData, origin, env, t) ==
    IF KeyExpired(keyData, t) THEN "API_KEY_EXPIRED"
    ELSE IF ~keyData.is_active THEN "API_KEY_INACTIVE"
    ELSE IF ~isOriginAllowed(origin, keyData.allowed_origins, env) THEN "ORIGIN_NOT_ALLOWED"
    ELSE "OK"

\* fetch(): active, expiry and origin checks, in the order of the code
PolicyError(keyData, origin, env, t) ==
    IF ~keyData.is_active THEN "API_KEY_INACTIVE"
    ELSE IF KeyExpired(keyData, t) THEN "API_KEY_EXPIRED"
    ELSE IF ~isOriginAllowed(origin, keyData.allowed_origins, env) THEN "ORIGIN_NOT_ALLOWED"
    ELSE "OK"

PolicyMessage(code) ==
    CASE code = "API_KEY_INACTIVE" -> <<"API key is inactive">>
      [] code = "API_KEY_EXPIRED" -> <<"API key has expired">>
      [] code = "ORIGIN_NOT_ALLOWED" -> <<"Origin not allowed">>
      [] OTHER -> <<>>

\* mutant: the scope check never rejects
ScopeMissing_Never(keyData, pathname, method) == FALSE

\* handleApiKeyRoute: requiredScope && !keyData.scopes.includes(requiredScope)
ScopeMissing(keyData, pathname, method) ==
    LET requiredScope == getRequiredScope(pathname, method)
    IN  IsSome(requiredScope) /\ ~Includes(keyData.scopes, Val(requiredScope))

(***************************************************************************)
(* Credential verifier of the API-key route (verifyApiKey).                *)
(***************************************************************************)
\* apiKey.substring(0, 12)
KeyPrefix(apiKey) == Substring0(apiKey, KEY_PREFIX_LEN)

\* fetch(): !apiKey.startsWith('fc_live_') && !apiKey.startsWith('fc_test_')
KeyFormatOk(apiKey) == StartsWith(apiKey, S_fc_live) \/ StartsWith(apiKey, S_fc_test)

\* mutant: a cache entry never expires
CacheLookup_NeverExpires(cache, prefix, t) ==
    IF prefix \in DOMAIN cache THEN Some(cache[prefix].data) ELSE None

\* env.API_KEY_CACHE.get(`key:${keyPrefix}`, 'json'): an expired entry is gone
CacheLookup(cache, prefix, t) ==
    IF prefix \in DOMAIN cache /\ t < cache[prefix].expiresAt
    THEN Some(cache[prefix].data) ELSE None

\* verifyApiKey, cache hit: hash === keyData.key_hash
CachedKeyMatches(apiKey, cached) == hashApiKey(apiKey, cached.key_salt) = cached.key_hash

\* the rows the identity store answers for a lookup prefix: rpc/verify_api_key
\* and api_keys?key_prefix=eq.<prefix>
RowsWithPrefix(store, prefix) == {row \in store : row.key_prefix = prefix}

\* verifyApiKey, cache miss: hash !== keyRecords[0].key_hash rejects
StoredKeyMatches(apiKey, keyRecord, hashRow) ==
    ~(hashApiKey(apiKey, keyRecord.key_salt) # hashRow.key_hash)

\* the KeyData verifyApiKey builds from the row (with the hash it caches)
KeyDataOf(keyRecord, hash) ==
    [ id |-> keyRecord.id, user_id |-> keyRecord.user_id, app_id |-> keyRecord.app_id,
      scopes |-> keyRecord.scopes, allowed_origins |-> keyRecord.allowed_origins,
      rate_limit |-> IF keyRecord.rate_limit = 0 THEN DEFAULT_KEY_RATE_LIMIT
                     ELSE keyRecord.rate_limit,
      is_active |-> keyRecord.is_active, expires_at |-> keyRecord.expires_at,
      key_salt |-> keyRecord.key_salt, key_hash |-> hash ]

(***************************************************************************)
(* Forwarding.                                                             *)
(***************************************************************************)
\* handleUserRoute: the /v1/* -> /api-* if-chain
RewriteUserPath(targetPath) ==
    IF StartsWith(targetPath, S_v1_me)
        THEN ReplaceFirst(targetPath, S_v1_me, S_api_users \o <<"/", "m", "e">>)
    ELSE IF StartsWith(targetPath, S_v1_profiles)
        THEN ReplaceFirst(targetPath, S_v1_profiles,
                          S_api_users \o <<"/", "p", "r", "o", "f", "i", "l", "e", "s">>)
    ELSE IF StartsWith(targetPath, S_v1_conversations)
        THEN ReplaceFirst(targetPath, S_v1_conversations,
                          S_api_chat \o <<"/", "c", "o", "n", "v", "e", "r", "s", "a", "t", "i", "o", "n", "s">>)
    ELSE IF StartsWith(targetPath, S_v1_messages)
        THEN ReplaceFirst(targetPath, S_v1_messages,
                          S_api_chat \o <<"/", "m", "e", "s", "s", "a", "g", "e", "s">>)
    ELSE IF StartsWith(targetPath, S_v1_users)
        THEN ReplaceFirst(targetPath, S_v1_users, S_api_users)
    ELSE IF StartsWith(targetPath, S_v1_reactions)
        THEN ReplaceFirst(targetPath, S_v1_reactions,
                          S_api_chat \o <<"/", "r", "e", "a", "c", "t", "i", "o", "n", "s">>)
    ELSE IF StartsWith(targetPath, S_v1_read_receipts)
        THEN ReplaceFirst(targetPath, S_v1_read_receipts,
                          S_api_chat \o <<"/", "r", "e", "a", "d", "-", "r", "e", "c", "e", "i", "p", "t", "s">>)
    ELSE IF StartsWith(targetPath, S_v1_media)
        THEN ReplaceFirst(targetPath, S_v1_media, S_api_chat \o <<"/", "m", "e", "d", "i", "a">>)
    ELSE IF StartsWith(targetPath, S_v1_rewards)
        THEN ReplaceFirst(targetPath, S_v1_rewards, <<"/", "a", "p", "i", "-", "r", "e", "w", "a", "r", "d", "s">>)
    ELSE targetPath

\* handleUserRoute: forwardHeaders
UserForwardHeaders(headers, userId) ==
    HeadersSet(HeadersSet(HeadersSet(headers,
        "x-auth-mode", "jwt"),
        "x-funchat-user-id", userId),
        "x-funchat-scopes", USER_SCOPES)

\* mutant: the raw key header is not deleted
ApiKeyForwardHeaders_KeepsKey(headers, keyData) ==
    HeadersSet(HeadersSet(HeadersSet(HeadersSet(HeadersSet(headers,
        "authorization", ServiceKeyAuth),
        "x-auth-mode", "api_key"),
        "x-funchat-api-key-id", keyData.id),
        "x-funchat-user-id", keyData.user_id),
        "x-funchat-scopes", keyData.scopes)

\* handleApiKeyRoute: forwardHeaders
ApiKeyForwardHeaders(headers, keyData) ==
    LET h1 == HeadersSet(headers, "authorization", ServiceKeyAuth)
        h2 == HeadersSet(h1, "x-auth-mode", "api_key")
        h3 == HeadersSet(h2, "x-funchat-api-key-id", keyData.id)
        h4 == HeadersSet(h3, "x-funchat-user-id", keyData.user_id)
        h5 == HeadersSet(h4, "x-funchat-scopes", keyData.scopes)
        h6 == IF IsSome(keyData.app_id)
              THEN HeadersSet(h5, "x-funchat-app-id", Val(keyData.app_id)) ELSE h5
    IN  HeadersDelete(h6, "x-funchat-api-key")

(***************************************************************************)
(* Request handlers.  A handler is at pc, the await it is suspended on:    *)
(*   cache_get  env.API_KEY_CACHE.get          (verifyApiKey)              *)
(*   rpc        fetch rpc/verify_api_key       (verifyApiKey)              *)
(*   key_hash   fetch api_keys?...key_hash     (verifyApiKey)              *)
(*   cache_put  env.API_KEY_CACHE.put          (verifyApiKey)              *)
(*   rl_get     env.RATE_LIMIT.get             (checkRateLimit)            *)
(*   rl_put     env.RATE_LIMIT.put             (checkRateLimit)            *)
(*   forward    fetch(forwardRequest)                                      *)
(*   membership fetch conversation_members (verifyConversationMembership)   *)
(*   done       the response has been returned                             *)
(***************************************************************************)
\* mutant: the key header is tested before the method
Route_KeyBeforePreflight(method, pathname, headers) ==
    IF Truthy(HeadersGet(headers, "x-funchat-api-key")) THEN "api_key"
    ELSE IF method = "OPTIONS" THEN "preflight"
    ELSE IF isPublicRoute(pathname) THEN "public"
    ELSE IF IsSome(StreamConversation(pathname)) THEN "stream"
    ELSE IF isUserRoute(pathname) THEN "user"
    ELSE "not_found"

\* mutant: the user-route prefixes are tested before the stream pattern
Route_UserBeforeStream(method, pathname, headers) ==
    IF method = "OPTIONS" THEN "preflight"
    ELSE IF isPublicRoute(pathname) THEN "public"
    ELSE IF Truthy(HeadersGet(headers, "x-funchat-api-key")) THEN "api_key"
    ELSE IF isUserRoute(pathname) THEN "user"
    ELSE IF IsSome(StreamConversation(pathname)) THEN "stream"
    ELSE "not_found"

\* fetch(): the fixed-precedence classification of a request
Route(method, pathname, headers) ==
    IF method = "OPTIONS" THEN "preflight"
    ELSE IF isPublicRoute(pathname) THEN "public"
    ELSE IF Truthy(HeadersGet(headers, "x-funchat-api-key")) THEN "api_key"
    ELSE IF IsSome(StreamConversation(pathname)) THEN "stream"
    ELSE IF isUserRoute(pathname) THEN "user"
    ELSE "not_found"

NewHandler(inp, t) ==
    [ method |-> inp.method, path |-> inp.path, headers |-> inp.headers,
      origin |-> HeadersGet(inp.headers, "origin"),
      route |-> Route(inp.method, inp.path, inp.headers),
      requestId |-> generateRequestId(t, inp.rand),
      token |-> inp.token, at |-> t,
      userId |-> None, membership |-> "none",
      pc |-> "start", keyRecord |-> None, keyData |-> None, policyAt |-> 0,
      rl |-> NoRateLimit, rlResult |-> None, admittedBefore |-> 0, resp |-> None ]

Respond(r, response) == [r EXCEPT !.pc = "done", !.resp = Some(response)]

\* mutant: a failed credential is answered 403
Unauthorized_AsForbidden(r, code, message) ==
    Respond(r, errorResponse(code, message, 403, r.requestId, r.origin))

Unauthorized(r, code, message) == Respond(r, errorResponse(code, message, 401, r.requestId, r.origin))

\* history: the checkRateLimit calls for (identifier, window of t) that had
\* returned allowed = true when this call is made
AdmittedSoFar(identifier, t) ==
    Cardinality({j \in 1..Len(reqs) :
        /\ IsSome(reqs[j].rlResult)
        /\ Val(reqs[j].rlResult).allowed
        /\ reqs[j].rl.identifier = identifier
        /\ reqs[j].rl.windowStart = WindowStart(t)})

\* handleApiKeyRoute / handleUserRoute call checkRateLimit(identifier, limit):
\* it runs to its first await
CallCheckRateLimit(r, identifier, limit, t) ==
    [r EXCEPT !.pc = "rl_get",
              !.rl = RateLimitLocals(identifier, limit, t),
              !.admittedBefore = AdmittedSoFar(identifier, t)]

\* fetch() after verifyApiKey returned keyData, down to the first await of
\* checkRateLimit in handleApiKeyRoute (no await in between)
AfterVerified(r, keyData, env, t) ==
    LET r1 == [r EXCEPT !.keyData = Some(keyData), !.policyAt = t]
        policy == PolicyError(keyData, r.origin, env, t)
    IN  IF policy # "OK"
            THEN Respond(r1, errorResponse(policy, PolicyMessage(policy), 403,
                                           r.requestId, r.origin))
        ELSE IF ScopeMissing(keyData, r.path, r.method)
            THEN Respond(r1, errorResponse("INSUFFICIENT_SCOPE",
                     <<"Required scope:", Val(getRequiredScope(r.path, r.method))>>,
                     403, r.requestId, r.origin))
        ELSE CallCheckRateLimit(r1, <<"key", keyData.id>>, keyData.rate_limit, t)

\* fetch() from its entry to its first await
FetchEntry(inp, env, t) ==
    LET r == NewHandler(inp, t)
    IN  CASE r.route = "preflight" -> Respond(r, preflightResponse(r.origin, env))
          [] r.route = "public" -> Respond(r, successResponse(r.requestId, r.origin))
          [] r.route = "api_key" ->
                IF ~KeyFormatOk(Val(HeadersGet(r.headers, "x-funchat-api-key")))
                THEN Unauthorized(r, "INVALID_API_KEY", <<"Invalid API key format">>)
                ELSE [r EXCEPT !.pc = "cache_get"]
          [] r.route = "stream" ->
                LET authHeader == IF IsSome(inp.token)
                                  THEN Some([scheme |-> "Bearer", token |-> Val(inp.token)])
                                  ELSE HeadersGet(r.headers, "authorization")
                    sub == verifyAuthHeader(authHeader, t)
                IN  IF ~IsSome(sub)
                    THEN Unauthorized(r, "UNAUTHORIZED", <<"Invalid or expired token">>)
                    ELSE [r EXCEPT !.pc = "membership", !.userId = sub]
          [] r.route = "user" ->
                LET sub == verifyAuthHeader(HeadersGet(r.headers, "authorization"), t)
                IN  IF ~IsSome(sub)
                    THEN Unauthorized(r, "UNAUTHORIZED", <<"Invalid or expired token">>)
                    ELSE CallCheckRateLimit(r, <<"user", Val(sub)>>, USER_RATE_LIMIT, t)
          [] OTHER -> Respond(r, errorResponse("NOT_FOUND", <<"Endpoint not found">>, 404,
                                              r.requestId, r.origin))

ApiKeyOf(r) == Val(HeadersGet(r.headers, "x-funchat-api-key"))

InFlight == {i \in 1..Len(reqs) : reqs[i].pc # "done"}

(***************************************************************************)
(* Actions of the extended gateway.                                        *)
(***************************************************************************)
\* a request arrives: fetch() runs to its first await (or to its response)
Arrive(pool, maxRequests, maxInFlight) ==
    /\ Len(reqs) < maxRequests
    /\ Cardinality(InFlight) < maxInFlight
    /\ \E inp \in pool :
          reqs' = Append(reqs, FetchEntry(inp, envAllowed, now))
    /\ UNCHANGED <<now, ticks, apiKeys, keyCache, rateLimit, envAllowed, backendLog, probe, streams, messageRows, adapter>>

\* verifyApiKey: the cache answers
CacheGet(i) ==
    /\ reqs[i].pc = "cache_get"
    /\ LET r == reqs[i]
           cached == CacheLookup(keyCache, KeyPrefix(ApiKeyOf(r)), now)
       IN  reqs' = [reqs EXCEPT ![i] =
              IF IsSome(cached)
              THEN IF CachedKeyMatches(ApiKeyOf(r), Val(cached))
                   THEN AfterVerified(r, Val(cached), envAllowed, now)
                   ELSE Unauthorized(r, "INVALID_API_KEY", <<"Invalid API key">>)
              ELSE [r EXCEPT !.pc = "rpc"]]
    /\ UNCHANGED <<now, ticks, apiKeys, keyCache, rateLimit, envAllowed, backendLog, probe, streams, messageRows, adapter>>

\* verifyApiKey: rpc/verify_api_key answers (not ok, no row, or a row)
RpcLookup(i) ==
    /\ reqs[i].pc = "rpc"
    /\ LET r == reqs[i]
           rows == RowsWithPrefix(apiKeys, KeyPrefix(ApiKeyOf(r)))
       IN  \/ \E responseOk \in BOOLEAN :
                /\ ~responseOk \/ rows = {}
                /\ reqs' = [reqs EXCEPT ![i] =
                      Unauthorized(r, "INVALID_API_KEY", <<"Invalid API key">>)]
           \/ \E row \in rows :
                reqs' = [reqs EXCEPT ![i] =
                      [r EXCEPT !.pc = "key_hash", !.keyRecord = Some(row)]]
    /\ UNCHANGED <<now, ticks, apiKeys, keyCache, rateLimit, envAllowed, backendLog, probe, streams, messageRows, adapter>>

\* verifyApiKey: api_keys?key_prefix=eq.<prefix>&select=key_hash answers
KeyHashFetch(i) ==
    /\ reqs[i].pc = "key_hash"
    /\ LET r == reqs[i]
           rows == RowsWithPrefix(apiKeys, KeyPrefix(ApiKeyOf(r)))
           keyRecord == Val(r.keyRecord)
       IN  \/ \E responseOk \in BOOLEAN :
                /\ ~responseOk \/ rows = {}
                /\ reqs' = [reqs EXCEPT ![i] =
                      Unauthorized(r, "INVALID_API_KEY", <<"Invalid API key">>)]
           \/ \E hashRow \in rows :
                reqs' = [reqs EXCEPT ![i] =
                      IF StoredKeyMatches(ApiKeyOf(r), keyRecord, hashRow)
                      THEN [r EXCEPT !.pc = "cache_put",
                               !.keyData = Some(KeyDataOf(keyRecord,
                                   hashApiKey(ApiKeyOf(r), keyRecord.key_salt)))]
                      ELSE Unauthorized(r, "INVALID_API_KEY", <<"Invalid API key">>)]
    /\ UNCHANGED <<now, ticks, apiKeys, keyCache, rateLimit, envAllowed, backendLog, probe, streams, messageRows, adapter>>

\* verifyApiKey: the cache entry is written, verifyApiKey returns keyData and
\* fetch() runs on to the rate limiter's first await
CachePut(i) ==
    /\ reqs[i].pc = "cache_put"
    /\ LET r == reqs[i]
           keyData == Val(r.keyData)
           prefix == KeyPrefix(ApiKeyOf(r))
       IN  /\ keyCache' = [p \in (DOMAIN keyCache) \cup {prefix} |->
                             IF p = prefix
                             THEN [data |-> keyData, expiresAt |-> now + CACHE_TTL]
                             ELSE keyCache[p]]
           /\ reqs' = [reqs EXCEPT ![i] = AfterVerified(r, keyData, envAllowed, now)]
    /\ UNCHANGED <<now, ticks, apiKeys, rateLimit, envAllowed, backendLog, probe, streams, messageRows, adapter>>

\* mutant: a rejected call is counted as well
RateLimitGet_CountsRejected(i) ==
    /\ reqs[i].pc = "rl_get"
    /\ LET r == reqs[i]
           key == <<r.rl.identifier, r.rl.windowStart>>
           count == RateLimitCount(rateLimit, key, now)
       IN  /\ reqs' = [reqs EXCEPT ![i] =
                  IF RateLimitAllowed(count, r.rl.limit)
                  THEN [r EXCEPT !.pc = "rl_put", !.rl.count = count]
                  ELSE Respond([r EXCEPT !.rl.count = count,
                                         !.rlResult = Some([allowed |-> FALSE, remaining |-> 0,
                                                            resetAt |-> r.rl.resetAt])],
                               rateLimitedResponse(r.requestId, r.origin, r.rl.limit, r.rl.resetAt, now))]
           /\ rateLimit' = IF RateLimitAllowed(count, r.rl.limit) THEN rateLimit
                           ELSE [rateLimit EXCEPT ![key].count = @ + 1]
    /\ UNCHANGED <<now, ticks, apiKeys, keyCache, envAllowed, backendLog, probe, streams, messageRows, adapter>>

\* checkRateLimit: env.RATE_LIMIT.get answers
RateLimitGet(i) ==
    /\ reqs[i].pc = "rl_get"
    /\ LET r == reqs[i]
           count == RateLimitCount(rateLimit, <<r.rl.identifier, r.rl.windowStart>>, now)
       IN  reqs' = [reqs EXCEPT ![i] =
              IF RateLimitAllowed(count, r.rl.limit)
              THEN [r EXCEPT !.pc = "rl_put", !.rl.count = count]
              ELSE Respond([r EXCEPT !.rl.count = count,
                                     !.rlResult = Some([allowed |-> FALSE, remaining |-> 0,
                                                        resetAt |-> r.rl.resetAt])],
                           rateLimitedResponse(r.requestId, r.origin, r.rl.limit, r.rl.resetAt, now))]
    /\ UNCHANGED <<now, ticks, apiKeys, keyCache, rateLimit, envAllowed, backendLog, probe, streams, messageRows, adapter>>

\* checkRateLimit: env.RATE_LIMIT.put({count: count + 1, resetAt}) is applied
RateLimitPut(i) ==
    /\ reqs[i].pc = "rl_put"
    /\ LET r == reqs[i]
           key == <<r.rl.identifier, r.rl.windowStart>>
       IN  /\ rateLimit' = [k \in (DOMAIN rateLimit) \cup {key} |->
                              IF k = key
                              THEN [count |-> r.rl.count + 1, resetAt |-> r.rl.resetAt,
                                    expiresAt |-> now + RATE_LIMIT_WINDOW]
                              ELSE rateLimit[k]]
           /\ reqs' = [reqs EXCEPT ![i] =
                  [r EXCEPT !.pc = "forward",
                            !.rlResult = Some([allowed |-> TRUE,
                                remaining |-> RateLimitRemaining(r.rl.count, r.rl.limit),
                                resetAt |-> r.rl.resetAt])]]
    /\ UNCHANGED <<now, ticks, apiKeys, keyCache, envAllowed, backendLog, probe, streams, messageRows, adapter>>

\* the forwarded request, as the backend would see it
ForwardRequest(i, r) ==
    [ req |-> i, route |-> r.route, method |-> r.method,
      path |-> IF r.route = "user" THEN RewriteUserPath(r.path) ELSE r.path,
      headers |-> IF r.route = "user"
                  THEN UserForwardHeaders(r.headers, r.rl.identifier[2])
                  ELSE ApiKeyForwardHeaders(r.headers, Val(r.keyData)) ]

\* the status of the backend's own answer: success, or a structured error
BackendStatus(outcome) == IF outcome = "ok" THEN 200 ELSE 500

\* the gateway's answer to the outcome of fetch(forwardRequest)
ForwardResponse(r, outcome) ==
    IF outcome = "throws"
    THEN IF r.route = "user"
         THEN errorResponse("INTERNAL_ERROR", <<"Failed to process request">>, 500,
                            r.requestId, r.origin)
         ELSE uncaughtResponse
    ELSE proxiedResponse(BackendStatus(outcome), r.requestId, r.origin,
                         r.rl.limit,
                         Val(r.rlResult).remaining, Val(r.rlResult).resetAt)

\* fetch(forwardRequest) is sent and answered (or throws)
Forward(i) ==
    /\ reqs[i].pc = "forward"
    /\ \E outcome \in {"ok", "error", "throws"} :
          /\ backendLog' = Append(backendLog,
                                  ForwardRequest(i, reqs[i]) @@ [outcome |-> outcome])
          /\ reqs' = [reqs EXCEPT ![i] = Respond(reqs[i], ForwardResponse(reqs[i], outcome))]
    /\ UNCHANGED <<now, ticks, apiKeys, keyCache, rateLimit, envAllowed, probe, streams, messageRows, adapter>>

\* the clock's schedule: a second passes, then a cache lifetime, in turn
TickStep(k) == IF k % 2 = 0 THEN 1 ELSE CACHE_TTL

\* time passes
Tick ==
    /\ ticks < MaxTicks
    /\ ticks' = ticks + 1
    /\ now' = now + TickStep(ticks)
    /\ UNCHANGED <<apiKeys, keyCache, rateLimit, envAllowed, reqs, backendLog, probe, streams, messageRows, adapter>>

\* a handler resumes from the await it is suspended on
HandlerStep ==
    \/ \E i \in 1..Len(reqs) : CacheGet(i)
    \/ \E i \in 1..Len(reqs) : RpcLookup(i)
    \/ \E i \in 1..Len(reqs) : KeyHashFetch(i)
    \/ \E i \in 1..Len(reqs) : CachePut(i)
    \/ \E i \in 1..Len(reqs) : RateLimitGet(i)
    \/ \E i \in 1..Len(reqs) : RateLimitPut(i)
    \/ \E i \in 1..Len(reqs) : Forward(i)

Step ==
    \/ HandlerStep
    \/ Tick


(***************************************************************************)
(* SSE sessions (handleSSEStream).  A session is suspended at pc:          *)
(*   write     writer.write of the pending event          (sendEvent)      *)
(*   fetch     fetch messages?...                         (fetchNewMessages)*)
(*   sleep     setTimeout(resolve, SSE_POLL_INTERVAL)                      *)
(*   returned  the loop has returned                                       *)
(* writes logs every call of writer.write: the event, whether the writer   *)
(* was closed at the call, and how the write settled.                      *)
(***************************************************************************)
\* table conversation_members: <<conversation_id, user_id>>
ConversationMembers == { <<ConversationC1, "u1">> }

\* mutant: a membership lookup that answers an error counts as membership
verifyConversationMembership_FailOpen(conversationId, userId, outcome) ==
    IF outcome = "throws" THEN FALSE
    ELSE IF outcome = "error" THEN TRUE
    ELSE \E row \in ConversationMembers : row = <<conversationId, userId>>

\* verifyConversationMembership: outcome is that of the fetch
verifyConversationMembership(conversationId, userId, outcome) ==
    IF outcome = "throws" THEN FALSE
    ELSE IF outcome = "error" THEN FALSE
    ELSE \E row \in ConversationMembers : row = <<conversationId, userId>>

\* the SSE response handleSSEStream returns
streamResponse(requestId, origin) ==
    [ kind |-> "stream", ok |-> TRUE, status |-> 200, code |-> "OK",
      message |-> <<>>, requestId |-> Some(requestId),
      acao |-> IF Truthy(origin) THEN origin ELSE None,
      limit |-> None, remaining |-> None, reset |-> None, retryAfter |-> None ]

\* handleSSEStream: writer, state, startTime, isRunning
NewSession(conversationId, userId, tms) ==
    [ conversationId |-> conversationId, userId |-> userId, startTime |-> tms,
      isRunning |-> TRUE, closed |-> FALSE, aborted |-> FALSE,
      lastMessageId |-> None, lastHeartbeat |-> tms,
      pc |-> "start", pending |-> [event |-> "none", id |-> None],
      fetchAfter |-> None, batch |-> <<>>, sleepUntil |-> 0,
      writes |-> <<>> ]

\* sendEvent(event, data): writer.write is called
sendEvent(s, event, id) ==
    [s EXCEPT !.pc = "write", !.pending = [event |-> event, id |-> id],
              !.writes = Append(@, [event |-> event, id |-> id, closed |-> s.closed,
                                    sent |-> "pending"])]

\* mutant: cleanup stops the loop and leaves the writer open
cleanup_LeavesWriterOpen(s) == [s EXCEPT !.isRunning = FALSE]

\* cleanup(): isRunning = false; writer.close()
cleanup(s) == [s EXCEPT !.isRunning = FALSE, !.closed = TRUE]

\* mutant: the loop returns without cleanup
CleanupAndReturn_SkipsCleanup(s) == [s EXCEPT !.pc = "returned"]

\* await cleanup(); return
CleanupAndReturn(s) == [cleanup(s) EXCEPT !.pc = "returned"]

\* fetchNewMessages(env, conversationId, state.lastMessageId) is called
CallFetchNewMessages(s) == [s EXCEPT !.pc = "fetch", !.fetchAfter = s.lastMessageId]

\* the head of while (isRunning), down to the next await
LoopTop(s, tms) ==
    IF ~s.isRunning THEN [s EXCEPT !.pc = "returned"]
    ELSE IF tms - s.startTime > SSE_MAX_DURATION THEN sendEvent(s, "reconnect", None)
    ELSE IF tms - s.lastHeartbeat > SSE_HEARTBEAT_INTERVAL THEN sendEvent(s, "ping", None)
    ELSE CallFetchNewMessages(s)

\* for (const msg of newMessages): the next message, or the sleep after the last
SendNextMessage(s, tms) ==
    IF s.batch = <<>>
    THEN [s EXCEPT !.pc = "sleep", !.sleepUntil = tms + SSE_POLL_INTERVAL]
    ELSE sendEvent([s EXCEPT !.batch = Tail(@)], "message", Some(Head(s.batch).id))

\* the loop after sendEvent returned `sent`
AfterSendEvent(s, sent, tms) ==
    LET s1 == [s EXCEPT !.writes[Len(s.writes)].sent = IF sent THEN "yes" ELSE "no"]
        event == s.pending.event
    IN  CASE event = "connected" -> LoopTop([s1 EXCEPT !.lastHeartbeat = tms], tms)
          [] event = "reconnect" -> CleanupAndReturn(s1)
          [] event = "ping" ->
                IF ~sent THEN CleanupAndReturn(s1)
                ELSE CallFetchNewMessages([s1 EXCEPT !.lastHeartbeat = tms])
          [] OTHER ->
                IF ~sent THEN CleanupAndReturn(s1)
                ELSE SendNextMessage([s1 EXCEPT !.lastMessageId = s.pending.id], tms)

\* the sequences holding each row of a set once, in ascending created_at;
\* rows of equal created_at come in any order
RECURSIVE OrderedByCreatedAt(_)
OrderedByCreatedAt(rows) ==
    IF rows = {} THEN { <<>> }
    ELSE LET earliest == { row \in rows :
                             \A other \in rows : row.created_at <= other.created_at }
         IN  UNION { { <<row>> \o p : p \in OrderedByCreatedAt(rows \ {row}) } :
                     row \in earliest }

\* fetchNewMessages: what the call can return: [] on a failed fetch, else the
\* first SSE_FETCH_LIMIT rows of the conversation with id > lastMessageId
fetchNewMessages(table, conversationId, lastMessageId) ==
    LET rows == { table[k] : k \in 1..Len(table) }
        hits == { row \in rows :
                    /\ row.conversation_id = conversationId
                    /\ ~row.is_deleted
                    /\ IsSome(lastMessageId) => row.id > Val(lastMessageId) }
    IN  { <<>> } \cup { Substring0(p, SSE_FETCH_LIMIT) : p \in OrderedByCreatedAt(hits) }

\* verifyConversationMembership answers; for a member handleSSEStream runs on
\* to the first await of its loop and returns the response
Membership(i) ==
    /\ reqs[i].pc = "membership"
    /\ \E outcome \in {"ok", "error", "throws"} :
          LET r == [reqs[i] EXCEPT !.membership = outcome]
              conversationId == Val(StreamConversation(r.path))
              userId == Val(r.userId)
          IN  IF verifyConversationMembership(conversationId, userId, outcome)
              THEN /\ streams' = (i :> sendEvent(NewSession(conversationId, userId,
                                                            DateNow(now)),
                                                 "connected", None)) @@ streams
                   /\ reqs' = [reqs EXCEPT ![i] =
                                  Respond(r, streamResponse(r.requestId, r.origin))]
              ELSE /\ reqs' = [reqs EXCEPT ![i] = Respond(r,
                                  errorResponse("FORBIDDEN",
                                                <<"Not a member of this conversation">>,
                                                403, r.requestId, r.origin))]
                   /\ UNCHANGED streams
    /\ UNCHANGED <<now, ticks, apiKeys, keyCache, rateLimit, envAllowed, backendLog, probe,
                   messageRows, adapter>>

\* writer.write settles: a write on a closed writer rejects
WriteSettles(i) ==
    /\ i \in DOMAIN streams
    /\ streams[i].pc = "write"
    /\ \E sent \in BOOLEAN :
          /\ streams[i].writes[Len(streams[i].writes)].closed => ~sent
          /\ streams' = [streams EXCEPT ![i] = AfterSendEvent(@, sent, DateNow(now))]
    /\ UNCHANGED <<now, ticks, apiKeys, keyCache, rateLimit, envAllowed, reqs, backendLog,
                   probe, messageRows, adapter>>

\* fetchNewMessages returns
FetchSettles(i) ==
    /\ i \in DOMAIN streams
    /\ streams[i].pc = "fetch"
    /\ \E newMessages \in fetchNewMessages(messageRows, streams[i].conversationId,
                                           streams[i].fetchAfter) :
          streams' = [streams EXCEPT ![i] =
                         SendNextMessage([@ EXCEPT !.batch = newMessages], DateNow(now))]
    /\ UNCHANGED <<now, ticks, apiKeys, keyCache, rateLimit, envAllowed, reqs, backendLog,
                   probe, messageRows, adapter>>

\* the poll timer fires
SleepEnds(i) ==
    /\ i \in DOMAIN streams
    /\ streams[i].pc = "sleep"
    /\ DateNow(now) >= streams[i].sleepUntil
    /\ streams' = [streams EXCEPT ![i] = LoopTop(@, DateNow(now))]
    /\ UNCHANGED <<now, ticks, apiKeys, keyCache, rateLimit, envAllowed, reqs, backendLog,
                   probe, messageRows, adapter>>

\* request.signal fires 'abort': the listener calls cleanup()
Abort(i) ==
    /\ i \in DOMAIN streams
    /\ ~streams[i].aborted
    /\ streams' = [streams EXCEPT ![i] = [cleanup(@) EXCEPT !.aborted = TRUE]]
    /\ UNCHANGED <<now, ticks, apiKeys, keyCache, rateLimit, envAllowed, reqs, backendLog,
                   probe, messageRows, adapter>>

\* NOW() of the statements run so far: each statement's is later than that of
\* every earlier one
LatestCreatedAt(table) ==
    IF table = <<>> THEN 0 ELSE table[Len(table)].created_at

\* a row of table messages
MessageRow(id, createdAt) ==
    [ id |-> id, conversation_id |-> ConversationC1, is_deleted |-> FALSE,
      created_at |-> createdAt ]

\* one INSERT statement adds k rows to the conversation: identifiers
\* increase with insertion, created_at is the statement's NOW()
InsertMessages(k) ==
    /\ Len(messageRows) + k <= MaxRows
    /\ messageRows' = messageRows \o
          [ j \in 1..k |-> MessageRow(Len(messageRows) + j,
                                      LatestCreatedAt(messageRows) + 1) ]
    /\ UNCHANGED <<now, ticks, apiKeys, keyCache, rateLimit, envAllowed, reqs, backendLog,
                   probe, streams, adapter>>

\* time passes while session i is suspended: the poll timer's interval while
\* it sleeps, or more than a heartbeat interval while it sleeps or waits for
\* the message store
Elapse(i) ==
    /\ i \in DOMAIN streams
    /\ \/ /\ streams[i].pc = "sleep"
          /\ DateNow(now) < streams[i].sleepUntil
          /\ now' = now + (SSE_POLL_INTERVAL \div 1000)
       \/ /\ streams[i].pc \in {"sleep", "fetch"}
          /\ DateNow(now) - streams[i].startTime <= SSE_MAX_DURATION
          /\ now' = now + ((SSE_HEARTBEAT_INTERVAL \div 1000) + 1)
    /\ UNCHANGED <<ticks, apiKeys, keyCache, rateLimit, envAllowed, reqs, backendLog,
                   probe, streams, messageRows, adapter>>

\* a session resumes from the await it is suspended on, its client
\* disconnects, or time passes for it
SessionStep ==
    \/ \E i \in 1..Len(reqs) : WriteSettles(i)
    \/ \E i \in 1..Len(reqs) : FetchSettles(i)
    \/ \E i \in 1..Len(reqs) : SleepEnds(i)
    \/ \E i \in 1..Len(reqs) : Abort(i)
    \/ \E i \in 1..Len(reqs) : Elapse(i)

StreamStep ==
    \/ \E i \in 1..Len(reqs) : Membership(i)
    \/ SessionStep
    \/ \E k \in 1..2 : InsertMessages(k)

(***************************************************************************)
(* The client adapter (useMessages) and its realtime connection             *)
(* (createSSEConnection, createPollingConnection).  adapter holds           *)
(*   messages      the message list of the hook                            *)
(*   sends         the send calls made: temp id, and whether the call is   *)
(*                 awaiting its HTTP response                              *)
(*   stored        the messages the server holds, in the order stored      *)
(*   useSSE, sseFailCount   the hook's state and sseFailCountRef           *)
(*   conn          connectionRef: the connection the realtime effect made  *)
(*   hasToken      getAccessToken() answers a token                        *)
(*   retried       the ids retryMessage was called with and acted on       *)
(* An entry's `logical` field names the send call the entry stands for.    *)
(***************************************************************************)
Me == "u1"

TempId(k) == <<"temp", k>>

ServerId(k) == <<"srv", k>>

\* tempMessage of sendMessage / sendCryptoMessage for send call k
TempMessage(k, content, messageType) ==
    [ id |-> TempId(k), content |-> content, sender_id |-> Me,
      message_type |-> messageType, sending |-> TRUE, failed |-> FALSE, logical |-> k ]

\* the message the server stores for send call k, as the stream and the
\* list endpoint deliver it
ServerMessage(k, content, messageType) ==
    [ id |-> ServerId(k), content |-> content, sender_id |-> Me,
      message_type |-> messageType, sending |-> FALSE, failed |-> FALSE, logical |-> k ]

\* prev.findIndex(pred): the first index, 0 when there is none
FindIndex(seq, pred(_)) ==
    IF \E j \in 1..Len(seq) : pred(seq[j])
    THEN CHOOSE j \in 1..Len(seq) : pred(seq[j]) /\ \A h \in 1..(j - 1) : ~pred(seq[h])
    ELSE 0

\* seq without its element at index j
RemoveAt(seq, j) == SubSeq(seq, 1, j - 1) \o SubSeq(seq, j + 1, Len(seq))

\* handleIncomingMessage: the updater given to setMessages
handleIncomingMessage(prev, msg) ==
    IF \E j \in 1..Len(prev) : prev[j].id = msg.id THEN prev
    ELSE LET optimisticIdx ==
                 FindIndex(prev, LAMBDA m : /\ m.sending
                                            /\ m.content = msg.content
                                            /\ m.sender_id = msg.sender_id)
         IN  IF optimisticIdx > 0
             THEN [prev EXCEPT ![optimisticIdx] =
                      [msg EXCEPT !.sending = FALSE, !.failed = FALSE]]
             ELSE Append(prev, msg)

\* additions.forEach of the polling callback: merged and optimisticMessages
\* after the additions were taken in turn
RECURSIVE MergeAdditions(_, _, _)
MergeAdditions(additions, merged, optimisticMessages) ==
    IF additions = <<>> THEN merged \o optimisticMessages
    ELSE LET newMsg == Head(additions)
             idx == FindIndex(optimisticMessages,
                              LAMBDA opt : /\ opt.content = newMsg.content
                                           /\ opt.sender_id = newMsg.sender_id)
             optimistic1 == IF idx > 0 THEN RemoveAt(optimisticMessages, idx)
                            ELSE optimisticMessages
             merged1 == IF \E j \in 1..Len(merged) : merged[j].id = newMsg.id
                        THEN merged ELSE Append(merged, newMsg)
         IN  MergeAdditions(Tail(additions), merged1, optimistic1)

\* the polling callback's updater: prev merged with the listed messages
PollMerge(prev, newMessages) ==
    LET additions ==
            SelectSeq(newMessages, LAMBDA m : \A j \in 1..Len(prev) : prev[j].id # m.id)
    IN  IF additions = <<>> THEN prev
        ELSE MergeAdditions(additions,
                            SelectSeq(prev, LAMBDA m : ~m.sending),
                            SelectSeq(prev, LAMBDA m : m.sending))

\* api.messages.list(conversationId, {limit: 20}): the latest stored messages
ListMessages(stored) ==
    SubSeq(stored, IF Len(stored) > POLL_LIST_LIMIT THEN Len(stored) - POLL_LIST_LIMIT + 1 ELSE 1,
           Len(stored))

\* mutant: the failed entry is left pending as well
MarkFailed_LeavesSending(prev, tempId) ==
    [j \in 1..Len(prev) |->
        IF prev[j].id = tempId THEN [prev[j] EXCEPT !.failed = TRUE]
        ELSE prev[j]]

\* the updater of a failed send: the temp entry is marked failed
MarkFailed(prev, tempId) ==
    [j \in 1..Len(prev) |->
        IF prev[j].id = tempId THEN [prev[j] EXCEPT !.sending = FALSE, !.failed = TRUE]
        ELSE prev[j]]

\* the updater of a successful send: the temp entry takes the server's id
MarkSent(prev, tempId, serverId) ==
    [j \in 1..Len(prev) |->
        IF prev[j].id = tempId
        THEN [prev[j] EXCEPT !.id = serverId, !.sending = FALSE, !.failed = FALSE]
        ELSE prev[j]]

\* callbacks.onError of the stream connection
onError(a) ==
    LET count == a.sseFailCount + 1
    IN  [a EXCEPT !.sseFailCount = count,
                  !.useSSE = IF count >= SSE_FAILURE_THRESHOLD THEN FALSE ELSE @]

\* connect() of createSSEConnection: without a token onError is called,
\* else an EventSource is created
connect(a) ==
    IF a.conn.isClosedManually THEN a
    ELSE IF ~a.hasToken THEN onError(a)
    ELSE [a EXCEPT !.conn.eventSource = "connecting"]

\* createPollingConnection
PollingConnection ==
    [ kind |-> "poll", eventSource |-> "none", reconnectAttempts |-> 0,
      reconnectTimeout |-> FALSE, isClosedManually |-> FALSE ]

\* createSSEConnection, before its first connect()
StreamConnection ==
    [ kind |-> "sse", eventSource |-> "none", reconnectAttempts |-> 0,
      reconnectTimeout |-> FALSE, isClosedManually |-> FALSE ]

\* the realtime effect: the connection is closed and a new one made
RealtimeEffect(a) ==
    IF a.useSSE THEN connect([a EXCEPT !.conn = StreamConnection])
    ELSE [a EXCEPT !.conn = PollingConnection]

\* the render after a state update: the realtime effect runs again when
\* useSSE or messages.length changed (its dependencies), until neither does
RECURSIVE Render(_, _)
Render(before, after) ==
    IF before.useSSE = after.useSSE /\ Len(before.messages) = Len(after.messages)
    THEN after
    ELSE Render(after, RealtimeEffect(after))

\* the adapter once the hook has mounted and its effects have run
MountedAdapter ==
    RealtimeEffect([ mode |-> "client", messages |-> <<>>, sends |-> <<>>, stored |-> <<>>,
                     useSSE |-> TRUE, sseFailCount |-> 0, conn |-> StreamConnection,
                     hasToken |-> TRUE, retried |-> <<>> ])

\* sendMessage / sendCryptoMessage up to the await of the HTTP call
StartSend(a, content, messageType) ==
    LET k == Len(a.sends) + 1
    IN  [a EXCEPT !.messages = Append(@, TempMessage(k, content, messageType)),
                  !.sends = Append(@, [content |-> content, message_type |-> messageType,
                                       pc |-> "http", stored |-> FALSE])]

ClientUnchanged ==
    UNCHANGED <<now, ticks, apiKeys, keyCache, rateLimit, envAllowed, reqs, backendLog,
                probe, streams, messageRows>>

Contents == {"a", "b"}

MessageTypes == {"text", "crypto"}

\* the user sends a message: sendMessage (text) or sendCryptoMessage
SendMessage ==
    /\ adapter.mode = "client"
    /\ Len(adapter.sends) < MaxSends
    /\ \E content \in Contents, messageType \in MessageTypes :
          adapter' = Render(adapter, StartSend(adapter, content, messageType))
    /\ ClientUnchanged

\* the server stores the message of send call k, before it answers
ServerStores(k) ==
    /\ adapter.mode = "client"
    /\ k \in 1..Len(adapter.sends)
    /\ adapter.sends[k].pc = "http" /\ ~adapter.sends[k].stored
    /\ adapter' = [adapter EXCEPT
          !.sends[k].stored = TRUE,
          !.stored = Append(@, ServerMessage(k, adapter.sends[k].content,
                                             adapter.sends[k].message_type))]
    /\ ClientUnchanged

\* the HTTP call of send k settles: response.ok, an error response, or a throw
SendSettles(k) ==
    /\ adapter.mode = "client"
    /\ k \in 1..Len(adapter.sends)
    /\ adapter.sends[k].pc = "http"
    /\ \E outcome \in {"ok", "error", "throws"} :
          /\ outcome = "ok" => adapter.sends[k].stored
          /\ adapter' = Render(adapter,
                [adapter EXCEPT
                    !.sends[k].pc = "done",
                    !.messages = IF outcome = "ok" THEN MarkSent(@, TempId(k), ServerId(k))
                                 ELSE MarkFailed(@, TempId(k))])
    /\ ClientUnchanged

\* the stream delivers a stored message: onMessage
StreamPush ==
    /\ adapter.mode = "client"
    /\ adapter.conn.kind = "sse" /\ adapter.conn.eventSource = "open"
    /\ \E j \in 1..Len(adapter.stored) :
          adapter' = Render(adapter,
                [adapter EXCEPT !.messages = handleIncomingMessage(@, adapter.stored[j]),
                                !.sseFailCount = 0])
    /\ ClientUnchanged

\* the polling timer fires: the callback lists the messages and merges them,
\* or the list call fails
Poll ==
    /\ adapter.mode = "client"
    /\ adapter.conn.kind = "poll"
    /\ \E responseOk \in BOOLEAN :
          adapter' = IF Len(adapter.messages) > 0 /\ responseOk
                     THEN Render(adapter,
                             [adapter EXCEPT !.messages =
                                 PollMerge(@, ListMessages(adapter.stored))])
                     ELSE adapter
    /\ ClientUnchanged

\* retryMessage(tempMessageId): the failed entry is removed and, for a text
\* message, sent again
RetryMessage ==
    /\ adapter.mode = "client"
    /\ \E j \in 1..Len(adapter.messages) :
          LET failedMessage == adapter.messages[j]
              removed == [adapter EXCEPT
                             !.messages = SelectSeq(@, LAMBDA m : m.id # failedMessage.id),
                             !.retried = Append(@, failedMessage.id)]
          IN  /\ failedMessage.failed
              /\ failedMessage.message_type = "text" => Len(adapter.sends) < MaxSends
              /\ adapter' = Render(adapter,
                    IF failedMessage.message_type = "text"
                    THEN StartSend(removed, failedMessage.content, failedMessage.message_type)
                    ELSE removed)
    /\ ClientUnchanged

\* eventSource.onopen
ConnOpens ==
    /\ adapter.mode = "client"
    /\ adapter.conn.kind = "sse" /\ adapter.conn.eventSource = "connecting"
    /\ adapter' = [adapter EXCEPT !.conn.eventSource = "open", !.conn.reconnectAttempts = 0]
    /\ ClientUnchanged

\* eventSource.onerror: a reconnect is scheduled, or onError is called once
\* the attempts are used up
ConnErrors ==
    /\ adapter.mode = "client"
    /\ adapter.conn.kind = "sse" /\ adapter.conn.eventSource \in {"connecting", "open"}
    /\ LET a == [adapter EXCEPT !.conn.eventSource = "none"]
       IN  adapter' =
                 IF a.conn.reconnectAttempts < MAX_RECONNECT_ATTEMPTS
                 THEN [a EXCEPT !.conn.reconnectAttempts = @ + 1,
                                !.conn.reconnectTimeout = TRUE]
                 ELSE Render(a, onError(a))
    /\ ClientUnchanged

\* the reconnect timer fires: onReconnect, connect()
ReconnectTimer ==
    /\ adapter.mode = "client"
    /\ adapter.conn.kind = "sse" /\ adapter.conn.reconnectTimeout
    /\ adapter' = Render(adapter, connect([adapter EXCEPT !.conn.reconnectTimeout = FALSE]))
    /\ ClientUnchanged

\* the user's session ends: getAccessToken() answers null from now on
TokenLost ==
    /\ adapter.mode = "client"
    /\ adapter.hasToken
    /\ adapter' = [adapter EXCEPT !.hasToken = FALSE]
    /\ ClientUnchanged
(***************************************************************************)
(* The environment: identity store rows, configuration and request inputs. *)
(***************************************************************************)
KeyRow(id, userId, appId, apiKey, salt, scopes, origins, limit, active, expiresAt) ==
    [ id |-> id, user_id |-> userId, app_id |-> appId,
      scopes |-> scopes, allowed_origins |-> origins, rate_limit |-> limit,
      is_active |-> active, expires_at |-> expiresAt, key_salt |-> salt,
      key_prefix |-> KeyPrefix(apiKey), key_hash |-> hashApiKey(apiKey, salt) ]

MkHeaders(apiKey, origin, auth) ==
    LET h1 == IF IsSome(apiKey) THEN HeadersSet(NoHeaders, "x-funchat-api-key", Val(apiKey))
              ELSE NoHeaders
        h2 == IF IsSome(origin) THEN HeadersSet(h1, "origin", Val(origin)) ELSE h1
    IN  IF IsSome(auth) THEN HeadersSet(h2, "authorization", Val(auth)) ELSE h2

MkRequest(method, path, apiKey, origin, auth) ==
    [ method |-> method, path |-> path, headers |-> MkHeaders(apiKey, origin, auth),
      token |-> None, rand |-> "r1" ]

\* the clock starts in the last second of a rate-limit window
StartTime == 2 * RATE_LIMIT_WINDOW - 1

ExpiredLongAgo == Some(1)

BearerOf(exp, sub) ==
    Some([scheme |-> "Bearer", token |-> [wellFormed |-> TRUE, exp |-> exp, sub |-> sub]])

ValidAuth == BearerOf(10 * RATE_LIMIT_WINDOW, "u1")

\* the key of the spec's scenario: scope chat:read only
Row1(limit) ==
    KeyRow("k1", "u1", None, Key1, Salt1, <<"chat:read">>, <<>>, limit, TRUE, None)

Row2(active, expiresAt, origins, scopes) ==
    KeyRow("k2", "u2", Some("app2"), Key2, Salt2, scopes, origins, 1, active, expiresAt)

\* requests of the concurrent specification
ConcurrentPool ==
    { MkRequest("GET", PathChatMessages, Some(Key1), Some(OriginApp), None),
      MkRequest("GET", PathV1Profiles, Some(<<>>), None, ValidAuth) }

\* requests of the sequential specification
SequentialPool ==
    { MkRequest("GET", PathChatMessages, Some(Key1), Some(OriginApp), None),
      MkRequest("GET", PathChatMessages, Some(Key1TailMutated), None, None),
      MkRequest("GET", PathChatMessages, Some(Key1PrefixMutated), None, None),
      MkRequest("POST", PathChatMessages, Some(Key2), Some(OriginOther), None),
      MkRequest("GET", PathV1Profiles, Some(<<>>), None, ValidAuth) }

\* no pure function is under examination
NoProbe == [fn |-> "none"]

TypeOK ==
    /\ now \in Nat
    /\ ticks \in 0..MaxTicks
    /\ Len(reqs) <= MaxConcurrent + MaxRequests

InitGateway(stores, envs, probes) ==
    /\ now = StartTime
    /\ ticks = 0
    /\ apiKeys \in stores
    /\ keyCache = [p \in {} |-> <<>>]
    /\ rateLimit = [k \in {} |-> <<>>]
    /\ envAllowed \in envs
    /\ reqs = <<>>
    /\ backendLog = <<>>
    /\ probe \in probes

NoStreams == [i \in {} |-> <<>>]

NoAdapter == [mode |-> "none"]

InitWith(stores, envs, probes) ==
    /\ InitGateway(stores, envs, probes)
    /\ streams = NoStreams
    /\ messageRows = <<>>
    /\ adapter = NoAdapter

Init ==
    InitWith({ {Row1(limit), Row2(FALSE, None, <<>>, <<"chat:write">>)} : limit \in {1, 2} },
             {None}, {NoProbe})

Next ==
    \/ Arrive(ConcurrentPool, MaxConcurrent, MaxConcurrent)
    \/ Step

Spec == Init /\ [][Next]_vars

(***************************************************************************)
(* Sequential specification: one request is handled at a time.             *)
(***************************************************************************)
SeqNext ==
    \/ Arrive(SequentialPool, MaxRequests, 1)
    \/ Step

SeqSpec == Init /\ [][SeqNext]_vars

(***************************************************************************)
(* Policy specification: the second key's record ranges over every         *)
(* combination of inactive / expired / origin-restricted / scope-less, and *)
(* the requests cover every way a credential fails.  The clock stands      *)
(* still: no check of the policy waits for time to pass.                   *)
(***************************************************************************)
PolicyPool ==
    { MkRequest("POST", PathChatMessages, Some(Key2), Some(OriginOther), None),
      MkRequest("GET", PathChatMessages, Some(Key1), Some(OriginApp), None),
      MkRequest("GET", PathChatMessages, Some(Key1TailMutated), Some(OriginApp), None),
      MkRequest("GET", PathChatMessages, Some(KeyBadFormat), None, None) }

PolicyInit ==
    InitWith({ {Row1(1), Row2(active, expiresAt, origins, scopes)} :
                  active \in BOOLEAN, expiresAt \in {None, ExpiredLongAgo},
                  origins \in {<<>>, <<OriginApp>>},
                  scopes \in {<<>>, <<"chat:write">>} },
             {None}, {NoProbe})

PolicyNext ==
    \/ Arrive(PolicyPool, MaxRequests, 1)
    \/ HandlerStep

PolicySpec == PolicyInit /\ [][PolicyNext]_vars

(***************************************************************************)
(* Vocabulary of the properties.                                           *)
(***************************************************************************)
Handlers == 1..Len(reqs)

\* handler i's request reached the backend
Forwarded(i) == \E k \in 1..Len(backendLog) : backendLog[k].req = i

\* handler i has returned its response
Returned(i) == reqs[i].pc = "done"

\* handler i's call of checkRateLimit has returned
Limited(i) == IsSome(reqs[i].rlResult)

\* handler i's call of checkRateLimit returned allowed = true
Admitted(i) == Limited(i) /\ Val(reqs[i].rlResult).allowed

\* handlers i and j used the same counter: same identity, same window
SameCounter(i, j) ==
    /\ reqs[i].rl.identifier = reqs[j].rl.identifier
    /\ reqs[i].rl.windowStart = reqs[j].rl.windowStart

\* the calls admitted on handler i's counter
AdmittedOnCounter(i) == {j \in Handlers : Admitted(j) /\ SameCounter(i, j)}

\* the count stored for handler i's counter
StoredCount(i) ==
    LET key == <<reqs[i].rl.identifier, reqs[i].rl.windowStart>>
    IN  IF key \in DOMAIN rateLimit THEN rateLimit[key].count ELSE 0

(***************************************************************************)
(* Rate limiter.                                                           *)
(***************************************************************************)
\* C1: a call of checkRateLimit made after `limit` calls were admitted on its
\* counter (same identity, same window) returns allowed = false, the gateway
\* answers 429 RATE_LIMITED, and the resetAt is not earlier than the time of
\* the call.
C1_CallBeyondLimitRejected ==
    \A i \in Handlers :
        (Limited(i) /\ reqs[i].admittedBefore >= reqs[i].rl.limit) =>
            /\ ~Val(reqs[i].rlResult).allowed
            /\ Val(reqs[i].rlResult).resetAt >= reqs[i].rl.now
            /\ Returned(i)
            /\ Val(reqs[i].resp).status = 429
            /\ Val(reqs[i].resp).code = "RATE_LIMITED"

\* a call made after `limit` admitted calls has been answered
C1_BeyondLimitReached ==
    \E i \in Handlers : Limited(i) /\ reqs[i].admittedBefore >= reqs[i].rl.limit

\* C2: under any interleaving, the count stored for a counter equals the
\* number of calls admitted on it so far, and no more than `limit` calls are
\* admitted on it.
C2_StoredCountIsAdmittedCount ==
    \A i \in Handlers :
        Admitted(i) =>
            /\ StoredCount(i) = Cardinality(AdmittedOnCounter(i))
            /\ Cardinality(AdmittedOnCounter(i)) <= reqs[i].rl.limit

\* C3: handled one at a time, a call made while fewer than `limit` calls were
\* admitted on its counter returns allowed = true; the first returns
\* remaining = limit - 1 and each later one returns one less than the
\* admitted call before it.
C3_RemainingCountsDown ==
    \A i \in Handlers :
        (Limited(i) /\ reqs[i].admittedBefore < reqs[i].rl.limit) =>
            /\ Val(reqs[i].rlResult).allowed
            /\ reqs[i].admittedBefore = 0 =>
                   Val(reqs[i].rlResult).remaining = reqs[i].rl.limit - 1
            /\ \A j \in AdmittedOnCounter(i) :
                   reqs[j].admittedBefore + 1 = reqs[i].admittedBefore =>
                       Val(reqs[i].rlResult).remaining =
                           Val(reqs[j].rlResult).remaining - 1

\* a second call was admitted on a counter, one below the first
C3_SecondCallAdmitted ==
    \E i, j \in Handlers :
        /\ i # j /\ Admitted(i) /\ Admitted(j) /\ SameCounter(i, j)
        /\ reqs[j].admittedBefore = 0 /\ reqs[i].admittedBefore = 1
        /\ Val(reqs[j].rlResult).remaining = reqs[j].rl.limit - 1
        /\ Val(reqs[i].rlResult).remaining = Val(reqs[j].rlResult).remaining - 1

(***************************************************************************)
(* API-key route: the stages of the decision, said of a handler's inputs.  *)
(***************************************************************************)
OnApiKeyRoute(i) == reqs[i].route = "api_key"

\* the key handler i presented hashes, with the record's salt, to the
\* record's hash
CredentialVerified(i) ==
    /\ IsSome(reqs[i].keyData)
    /\ StartsWith(ApiKeyOf(reqs[i]), S_fc_live) \/ StartsWith(ApiKeyOf(reqs[i]), S_fc_test)
    /\ Sha256(ApiKeyOf(reqs[i]) \o Val(reqs[i].keyData).key_salt) =
           Val(reqs[i].keyData).key_hash

KeyInactive(i) == ~Val(reqs[i].keyData).is_active

KeyHasExpired(i) ==
    /\ IsSome(Val(reqs[i].keyData).expires_at)
    /\ Val(Val(reqs[i].keyData).expires_at) < reqs[i].policyAt

OriginRejected(i) ==
    ~isOriginAllowed(reqs[i].origin, Val(reqs[i].keyData).allowed_origins, envAllowed)

ScopeLacking(i) ==
    /\ IsSome(getRequiredScope(reqs[i].path, reqs[i].method))
    /\ \A k \in 1..Len(Val(reqs[i].keyData).scopes) :
           Val(reqs[i].keyData).scopes[k] # Val(getRequiredScope(reqs[i].path, reqs[i].method))

PolicyPassed(i) ==
    ~KeyInactive(i) /\ ~KeyHasExpired(i) /\ ~OriginRejected(i) /\ ~ScopeLacking(i)

\* the rate limiter was asked for the key's counter while fewer than the
\* key's limit of calls were admitted on it
WithinRateLimit(i) ==
    /\ reqs[i].rl.identifier = <<"key", Val(reqs[i].keyData).id>>
    /\ reqs[i].rl.limit = Val(reqs[i].keyData).rate_limit
    /\ reqs[i].admittedBefore < reqs[i].rl.limit

\* C4: on the API-key route a request reaches the backend only after
\* credential verification, the access-policy checks and rate limiting have
\* all passed, in that order: a request that fails verification is answered
\* before the policy is evaluated or the limiter called, one that fails the
\* policy before the limiter is called, and a request that fails any of them
\* is answered with an error and never forwarded.
C4_ForwardedOnlyAfterAllChecks ==
    \A i \in Handlers :
        OnApiKeyRoute(i) =>
            LET verified == CredentialVerified(i)
                passed == verified /\ PolicyPassed(i)
                within == passed /\ WithinRateLimit(i)
            IN  /\ Forwarded(i) => within
                /\ (Returned(i) /\ ~verified) =>
                       /\ ~Forwarded(i) /\ Val(reqs[i].resp).status = 401
                       /\ reqs[i].policyAt = 0 /\ reqs[i].rl = NoRateLimit
                /\ (Returned(i) /\ verified /\ ~passed) =>
                       /\ ~Forwarded(i) /\ Val(reqs[i].resp).status = 403
                       /\ reqs[i].rl = NoRateLimit
                /\ (Returned(i) /\ passed /\ ~within) =>
                       /\ ~Forwarded(i) /\ Val(reqs[i].resp).status = 429

\* a verified key that lacks the required scope was answered, and a request
\* of a key that passes every check was forwarded
C4_ScopeRejectedAndOneForwarded ==
    /\ \E i \in Handlers :
          /\ OnApiKeyRoute(i) /\ Returned(i) /\ CredentialVerified(i)
          /\ ~KeyInactive(i) /\ ~KeyHasExpired(i) /\ ~OriginRejected(i)
          /\ ScopeLacking(i) /\ ~Forwarded(i)
    /\ \E j \in Handlers : OnApiKeyRoute(j) /\ Forwarded(j)

C6_KeyHeaderAbsent ==
    \A k \in 1..Len(backendLog) : "x-funchat-api-key" \notin DOMAIN backendLog[k].headers

\* C6 (amended): a request forwarded on the API-key route carries no
\* x-funchat-api-key header; one forwarded on the user route carries the
\* header only if the client sent it empty, so no forwarded request carries a
\* key.
C6_NoKeyForwarded ==
    \A k \in 1..Len(backendLog) :
        "x-funchat-api-key" \in DOMAIN backendLog[k].headers =>
            /\ backendLog[k].route = "user"
            /\ backendLog[k].headers["x-funchat-api-key"] = <<>>

\* a request that presented a key was forwarded on the API-key route
C6_KeyedRequestForwarded ==
    \E k \in 1..Len(backendLog) :
        /\ backendLog[k].route = "api_key"
        /\ "x-funchat-api-key" \in DOMAIN reqs[backendLog[k].req].headers
        /\ reqs[backendLog[k].req].headers["x-funchat-api-key"] # <<>>
        /\ "x-funchat-api-key" \notin DOMAIN backendLog[k].headers

(***************************************************************************)
(* isOriginAllowed on its own: the inputs are drawn by the initial state,  *)
(* the one action applies the function.                                    *)
(***************************************************************************)
HostLabels ==
    { <<"a", "p", "p">>, <<"e", "x", "a", "m", "p", "l", "e">>, <<"c", "o", "m">>,
      <<"e", "v", "i", "l">> }

RECURSIVE HostsOfLen(_)
\* the dotted names of n labels
HostsOfLen(n) ==
    IF n = 1 THEN HostLabels
    ELSE {l \o <<".">> \o h : l \in HostLabels, h \in HostsOfLen(n - 1)}

PortSuffix == <<":", "8", "4", "4", "3">>

\* the Origin header: absent, empty, or scheme://host with or without a port
ProbeOrigins ==
    {None, Some(<<>>)} \cup
    { Some(OriginApp), Some(OriginApex), Some(OriginEvilSuffix), Some(OriginEvilPrefix),
      Some(OriginAppPort), Some(OriginOther) } \cup
    { Some(scheme \o host \o port) :
        scheme \in {S_https, S_http},
        host \in UNION {HostsOfLen(n) : n \in 1..MaxLabels},
        port \in {<<>>, PortSuffix} }

\* allow-lists of one wildcard entry
ProbeWildcardLists ==
    { << <<"*", ".">> \o domain >> :
        domain \in UNION {HostsOfLen(n) : n \in 1..(MaxLabels - 1)} }

OriginFnInit ==
    InitWith({{}}, {None},
             { [fn |-> "isOriginAllowed", done |-> FALSE, origin |-> origin,
                allowedOrigins |-> allowedOrigins, envAllowed |-> None,
                result |-> FALSE] :
                 origin \in ProbeOrigins, allowedOrigins \in ProbeWildcardLists })

\* isOriginAllowed(origin, allowedOrigins, envAllowed) is applied
CallIsOriginAllowed ==
    /\ probe.fn = "isOriginAllowed" /\ ~probe.done
    /\ probe' = [probe EXCEPT !.done = TRUE,
                     !.result = isOriginAllowed(probe.origin, probe.allowedOrigins,
                                                probe.envAllowed)]
    /\ UNCHANGED <<now, ticks, apiKeys, keyCache, rateLimit, envAllowed, reqs, backendLog,
                   streams, messageRows, adapter>>

OriginFnNext == CallIsOriginAllowed

OriginFnSpec == OriginFnInit /\ [][OriginFnNext]_vars

\* the host of an origin: what follows "://", a port included
HostOf(origin) ==
    LET k == CHOOSE n \in 1..Len(origin) : SubSeq(origin, n, n + 2) = <<":", "/", "/">>
    IN  SubSeq(origin, k + 3, Len(origin))

\* text s ends with text t
HasSuffix(s, t) ==
    Len(t) <= Len(s) /\ SubSeq(s, Len(s) - Len(t) + 1, Len(s)) = t

\* isOriginAllowed has been applied to a present origin and one wildcard entry
WildcardProbed ==
    /\ probe.fn = "isOriginAllowed" /\ probe.done
    /\ probe.origin # None /\ probe.origin # Some(<<>>)

EnvAllowedText == <<" ">> \o OriginOther \o <<" ", ",", " ">>
EnvAllowedEntries == <<OriginOther>>

OriginLists == { <<>>, << <<"*">> >>, <<WildcardExample>>, <<OriginApex, OriginApp>> }

OriginPool ==
    { MkRequest("POST", PathChatMessages, Some(Key2), origin, None) :
        origin \in { None, Some(OriginApp), Some(OriginEvilSuffix), Some(OriginOther) } }

OriginInit ==
    InitWith({ {Row2(TRUE, None, origins, <<"chat:write">>)} : origins \in OriginLists },
             {None, Some(EnvAllowedText)}, {NoProbe})

OriginNext ==
    \/ Arrive(OriginPool, MaxRequests, 1)
    \/ HandlerStep

OriginSpec == OriginInit /\ [][OriginNext]_vars

\* the entries of the configured ALLOWED_ORIGINS
ConfiguredEntries == IF envAllowed = None THEN <<>> ELSE EnvAllowedEntries

\* a present origin matches an allow-list entry: *, the exact string, or a
\* *.suffix wildcard (the origin ends with the suffix or is http(s)://suffix)
EntryAdmits(origin, entry) ==
    \/ entry = <<"*">>
    \/ entry = origin
    \/ /\ Len(entry) >= 2 /\ SubSeq(entry, 1, 2) = <<"*", ".">>
       /\ \/ HasSuffix(origin, SubSeq(entry, 3, Len(entry)))
          \/ origin = S_https \o SubSeq(entry, 3, Len(entry))
          \/ origin = S_http \o SubSeq(entry, 3, Len(entry))

\* handler i's key was verified and is active and unexpired: the origin check ran
OriginChecked(i) ==
    /\ OnApiKeyRoute(i) /\ Returned(i) /\ CredentialVerified(i)
    /\ ~KeyInactive(i) /\ ~KeyHasExpired(i)

OriginAdmitted(i) == Val(reqs[i].resp).code # "ORIGIN_NOT_ALLOWED"

\* C10 (as stated): a key with an empty allow-list admits every request;
\* otherwise the request is admitted exactly when the key's list holds *, the
\* exact origin or a matching *.suffix wildcard, and is rejected with
\* ORIGIN_NOT_ALLOWED otherwise.
C10_KeyListDecides ==
    \A i \in Handlers :
        OriginChecked(i) =>
            LET list == Val(reqs[i].keyData).allowed_origins
            IN  IF list = <<>> THEN OriginAdmitted(i)
                ELSE OriginAdmitted(i) <=>
                       \E k \in 1..Len(list) :
                           \/ list[k] = <<"*">>
                           \/ /\ IsSome(reqs[i].origin)
                              /\ EntryAdmits(Val(reqs[i].origin), list[k])

\* C10 (amended): the key's allow-list and the entries of the configured
\* ALLOWED_ORIGINS are one list.  If it is empty every request is admitted
\* whatever its Origin header; otherwise a request without an Origin header
\* (or with an empty one) is rejected, and one with an origin is admitted
\* exactly when the list holds *, the exact origin or a matching *.suffix
\* wildcard; a rejected request is answered 403 ORIGIN_NOT_ALLOWED and not
\* forwarded.
C10_MergedListDecides ==
    \A i \in Handlers :
        OriginChecked(i) =>
            LET list == Val(reqs[i].keyData).allowed_origins \o ConfiguredEntries
                present == IsSome(reqs[i].origin) /\ Val(reqs[i].origin) # <<>>
            IN  /\ OriginAdmitted(i) <=>
                       \/ list = <<>>
                       \/ /\ present
                          /\ \E k \in 1..Len(list) : EntryAdmits(Val(reqs[i].origin), list[k])
                /\ ~OriginAdmitted(i) =>
                       Val(reqs[i].resp).status = 403 /\ ~Forwarded(i)

\* a key without an allow-list was rejected through the configured entries,
\* and a request was admitted through them
C10_ConfiguredEntriesDecided ==
    /\ \E i \in Handlers :
          /\ OriginChecked(i) /\ Val(reqs[i].keyData).allowed_origins = <<>>
          /\ envAllowed # None /\ ~OriginAdmitted(i)
    /\ \E j \in Handlers :
          /\ OriginChecked(j) /\ reqs[j].origin = Some(OriginOther)
          /\ envAllowed # None /\ OriginAdmitted(j)

(***************************************************************************)
(* Scope specification: the second key's granted scopes range over the     *)
(* chat scopes, the requests over the methods of the chat namespace.       *)
(***************************************************************************)
ScopeSets == { <<>>, <<"chat:read">>, <<"chat:write">>, <<"chat:read", "chat:write">> }

WriteMethods == {"POST", "PUT", "PATCH", "DELETE"}

ScopePool ==
    { MkRequest(method, PathChatMessages, Some(Key2), None, None) :
        method \in {"GET"} \cup WriteMethods }

ScopeInit ==
    InitWith({ {Row2(TRUE, None, <<>>, scopes)} : scopes \in ScopeSets },
             {None}, {NoProbe})

ScopeNext ==
    \/ Arrive(ScopePool, MaxRequests, 1)
    \/ HandlerStep

ScopeSpec == ScopeInit /\ [][ScopeNext]_vars

\* handler i's scope check ran, on a request under the chat namespace
ChatScopeChecked(i) ==
    /\ OnApiKeyRoute(i) /\ Returned(i) /\ CredentialVerified(i)
    /\ ~KeyInactive(i) /\ ~KeyHasExpired(i) /\ ~OriginRejected(i)
    /\ Len(reqs[i].path) >= Len(S_api_chat)
    /\ SubSeq(reqs[i].path, 1, Len(S_api_chat)) = S_api_chat

Grants(i, scope) ==
    \E k \in 1..Len(Val(reqs[i].keyData).scopes) : Val(reqs[i].keyData).scopes[k] = scope

\* the request was answered 403 INSUFFICIENT_SCOPE before the rate limiter
\* was called, and nothing was forwarded
ScopeRejected(i) ==
    /\ Val(reqs[i].resp).status = 403
    /\ Val(reqs[i].resp).code = "INSUFFICIENT_SCOPE"
    /\ reqs[i].rl = NoRateLimit
    /\ ~Forwarded(i)

\* the request passed the scope check: the rate limiter was called for it
ScopeAdmitted(i) ==
    /\ Val(reqs[i].resp).code # "INSUFFICIENT_SCOPE"
    /\ reqs[i].rl # NoRateLimit

\* C8 (as stated): a key without chat:write is rejected on every POST, PUT,
\* PATCH and DELETE under the chat namespace, and admitted on every GET
\* under the chat namespace.
C8_ReadAlwaysAdmitted ==
    \A i \in Handlers :
        (ChatScopeChecked(i) /\ ~Grants(i, "chat:write")) =>
            /\ reqs[i].method \in WriteMethods => ScopeRejected(i)
            /\ reqs[i].method = "GET" => ScopeAdmitted(i)

\* C8 (amended): a key without chat:write is rejected (403
\* INSUFFICIENT_SCOPE, nothing forwarded) on every POST, PUT, PATCH and
\* DELETE under the chat namespace; on a GET under the chat namespace it is
\* admitted exactly when it holds chat:read, and rejected in the same way
\* when it does not.
C8_WriteNeedsChatWrite ==
    \A i \in Handlers :
        (ChatScopeChecked(i) /\ ~Grants(i, "chat:write")) =>
            /\ reqs[i].method \in WriteMethods => ScopeRejected(i)
            /\ (reqs[i].method = "GET" /\ Grants(i, "chat:read")) => ScopeAdmitted(i)
            /\ (reqs[i].method = "GET" /\ ~Grants(i, "chat:read")) => ScopeRejected(i)

\* a key holding chat:read alone was rejected on a write and admitted on a GET
C8_ReadOnlyKeyBothWays ==
    \E i, j \in Handlers :
        /\ ChatScopeChecked(i) /\ ChatScopeChecked(j)
        /\ ~Grants(i, "chat:write") /\ Grants(i, "chat:read")
        /\ reqs[i].method \in WriteMethods /\ ScopeRejected(i)
        /\ reqs[j].method = "GET" /\ ScopeAdmitted(j) /\ Forwarded(j)

(***************************************************************************)
(* The basic gateway (public/cloudflare-worker/funchat-gateway.ts).  Its   *)
(* definitions carry the prefix W_.  It shares the stores with the         *)
(* extended gateway's model; a handler is at one of the awaits             *)
(*   w_cache_get  env.API_KEY_CACHE.get        (verifyApiKey)              *)
(*   w_query      fetch api_keys?key_prefix=   (verifyApiKey)              *)
(*   w_cache_put  env.API_KEY_CACHE.put        (verifyApiKey)              *)
(*   w_rl_get     env.RATE_LIMIT.get           (checkRateLimit)            *)
(*   w_rl_put     env.RATE_LIMIT.put           (checkRateLimit)            *)
(*   w_forward    fetch(targetUrl)                                         *)
(***************************************************************************)
\* const window = 60000, in milliseconds
W_RATE_WINDOW_MS == 60000

\* expirationTtl of a rate-limit entry, in seconds
W_RATE_TTL == 120

\* expirationTtl of a cache entry, in seconds
W_CACHE_TTL == 300

\* key.rate_limit || 60
W_DEFAULT_RATE_LIMIT == 60

\* hashApiKey(key, salt): SHA-256 of salt + key
W_hashApiKey(key, salt) == Sha256(salt \o key)

W_ENDPOINT_SCOPES ==
    (<<"a", "p", "i", "-", "c", "h", "a", "t">> :>
        (("GET" :> "chat:read") @@ ("POST" :> "chat:write") @@ ("DELETE" :> "chat:write")))
    @@ (<<"a", "p", "i", "-", "u", "s", "e", "r", "s">> :>
        (("GET" :> "users:read") @@ ("PUT" :> "users:write")))
    @@ (<<"a", "p", "i", "-", "c", "a", "l", "l", "s">> :>
        (("GET" :> "calls:read") @@ ("POST" :> "calls:write") @@ ("PUT" :> "calls:write")))
    @@ (<<"a", "p", "i", "-", "c", "r", "y", "p", "t", "o">> :>
        (("GET" :> "crypto:read") @@ ("POST" :> "crypto:write")))
    @@ (<<"a", "p", "i", "-", "w", "e", "b", "h", "o", "o", "k", "s">> :>
        (("GET" :> "webhooks:read") @@ ("POST" :> "webhooks:write") @@
         ("PATCH" :> "webhooks:write") @@ ("DELETE" :> "webhooks:write")))

\* pathname.split('/').filter(Boolean)[0], None when there is no segment
W_FirstSegment(pathname) ==
    LET starts == {k \in 1..Len(pathname) : pathname[k] # "/"}
    IN  IF starts = {} THEN None
        ELSE LET first == CHOOSE k \in starts : \A j \in starts : k <= j
                 stops == {k \in first..Len(pathname) : pathname[k] = "/"}
                 last == IF stops = {} THEN Len(pathname)
                         ELSE (CHOOSE k \in stops : \A j \in stops : k <= j) - 1
             IN  Some(SubSeq(pathname, first, last))

\* getRequiredScope(pathname, method)
W_getRequiredScope(pathname, method) ==
    LET endpoint == W_FirstSegment(pathname)
    IN  IF IsSome(endpoint) /\ Val(endpoint) \in DOMAIN W_ENDPOINT_SCOPES
           /\ method \in DOMAIN W_ENDPOINT_SCOPES[Val(endpoint)]
        THEN Some(W_ENDPOINT_SCOPES[Val(endpoint)][method])
        ELSE None

\* errorResponse(code, message, status, origin)
W_errorResponse(code, message, status, origin) ==
    [ kind |-> "envelope", ok |-> FALSE, status |-> status, code |-> code,
      message |-> message, requestId |-> None,
      acao |-> IF Truthy(origin) THEN origin ELSE None,
      limit |-> None, remaining |-> None, reset |-> None, retryAfter |-> None ]

\* the KeyData verifyApiKey builds from a row and caches: no key_hash in it
W_KeyDataOf(key) ==
    [ id |-> key.id, user_id |-> key.user_id, app_id |-> key.app_id,
      scopes |-> key.scopes, allowed_origins |-> key.allowed_origins,
      rate_limit |-> IF key.rate_limit = 0 THEN W_DEFAULT_RATE_LIMIT ELSE key.rate_limit,
      is_active |-> key.is_active, expires_at |-> key.expires_at,
      key_salt |-> key.key_salt ]

\* api_keys?key_prefix=eq.<prefix>&is_active=eq.true
W_ActiveRowsWithPrefix(store, prefix) ==
    {row \in store : row.key_prefix = prefix /\ row.is_active}

\* Math.floor(now / window), now in milliseconds
W_WindowIndex(t) == (t * 1000) \div W_RATE_WINDOW_MS

\* the locals checkRateLimit computes before its first await
W_RateLimitLocals(keyId, limit, t) ==
    [ identifier |-> <<"rate", keyId>>, limit |-> limit, now |-> t,
      windowStart |-> W_WindowIndex(t),
      resetAt |-> (W_WindowIndex(t) + 1) * W_RATE_WINDOW_MS,
      count |-> 0 ]

\* history: the checkRateLimit calls for the counter that had returned
\* allowed = true when this call is made
W_AdmittedSoFar(keyId, t) ==
    Cardinality({j \in 1..Len(reqs) :
        /\ IsSome(reqs[j].rlResult)
        /\ Val(reqs[j].rlResult).allowed
        /\ reqs[j].rl.identifier = <<"rate", keyId>>
        /\ reqs[j].rl.windowStart = W_WindowIndex(t)})

\* fetch() after verifyApiKey returned keyData, down to the first await of
\* checkRateLimit
W_AfterVerified(r, keyData, t) ==
    LET r1 == [r EXCEPT !.keyData = Some(keyData), !.policyAt = t]
        requiredScope == W_getRequiredScope(r.path, r.method)
    IN  IF ~keyData.is_active
            THEN Respond(r1, W_errorResponse("FORBIDDEN", <<"API key is disabled">>, 403, r.origin))
        ELSE IF IsSome(keyData.expires_at) /\ Val(keyData.expires_at) < t
            THEN Respond(r1, W_errorResponse("FORBIDDEN", <<"API key has expired">>, 403, r.origin))
        ELSE IF Truthy(r.origin) /\ Len(keyData.allowed_origins) > 0
                /\ ~Includes(keyData.allowed_origins, Val(r.origin))
            THEN Respond(r1, W_errorResponse("FORBIDDEN", <<"Origin not allowed">>, 403, None))
        ELSE IF IsSome(requiredScope) /\ ~Includes(keyData.scopes, Val(requiredScope))
            THEN Respond(r1, W_errorResponse("FORBIDDEN",
                     <<"Requires", Val(requiredScope), "scope">>, 403, r.origin))
        ELSE [r1 EXCEPT !.pc = "w_rl_get",
                        !.rl = W_RateLimitLocals(keyData.id, keyData.rate_limit, t),
                        !.admittedBefore = W_AdmittedSoFar(keyData.id, t)]

\* fetch() from its entry to its first await
W_FetchEntry(inp) ==
    LET r == [NewHandler(inp, now) EXCEPT !.route = "worker"]
        apiKey == HeadersGet(r.headers, "x-funchat-api-key")
    IN  IF r.method = "OPTIONS"
        THEN Respond(r, [ kind |-> "preflight", ok |-> TRUE, status |-> 200, code |-> "OK",
                          message |-> <<>>, requestId |-> None,
                          acao |-> IF Truthy(r.origin) THEN r.origin ELSE Some(<<"*">>),
                          limit |-> None, remaining |-> None, reset |-> None,
                          retryAfter |-> None ])
        ELSE IF ~Truthy(apiKey)
        THEN Respond(r, W_errorResponse("UNAUTHORIZED",
                        <<"Missing x-funchat-api-key header">>, 401, r.origin))
        ELSE [r EXCEPT !.pc = "w_cache_get"]

W_InvalidKey(r) ==
    Respond(r, W_errorResponse("UNAUTHORIZED", <<"Invalid API key">>, 401, r.origin))

\* a request arrives at the basic gateway
W_Arrive(pool, maxRequests, maxInFlight) ==
    /\ Len(reqs) < maxRequests
    /\ Cardinality(InFlight) < maxInFlight
    /\ \E inp \in pool : reqs' = Append(reqs, W_FetchEntry(inp))
    /\ UNCHANGED <<now, ticks, apiKeys, keyCache, rateLimit, envAllowed, backendLog, probe, streams, messageRows, adapter>>

\* verifyApiKey: the cache answers; a cached record is returned as it is
W_CacheGet(i) ==
    /\ reqs[i].pc = "w_cache_get"
    /\ LET r == reqs[i]
           cached == CacheLookup(keyCache, KeyPrefix(ApiKeyOf(r)), now)
       IN  reqs' = [reqs EXCEPT ![i] =
              IF IsSome(cached)
              THEN W_AfterVerified([r EXCEPT !.keyRecord = cached], Val(cached), now)
              ELSE [r EXCEPT !.pc = "w_query"]]
    /\ UNCHANGED <<now, ticks, apiKeys, keyCache, rateLimit, envAllowed, backendLog, probe, streams, messageRows, adapter>>

\* verifyApiKey: the identity store answers; the first row whose hash the
\* presented key produces is taken
W_Query(i) ==
    /\ reqs[i].pc = "w_query"
    /\ LET r == reqs[i]
           keys == W_ActiveRowsWithPrefix(apiKeys, KeyPrefix(ApiKeyOf(r)))
           matching == {key \in keys : W_hashApiKey(ApiKeyOf(r), key.key_salt) = key.key_hash}
       IN  \/ /\ reqs' = [reqs EXCEPT ![i] = W_InvalidKey(r)]
           \/ /\ keys # {} /\ matching = {}
              /\ \E key \in keys :
                    reqs' = [reqs EXCEPT ![i] = W_InvalidKey([r EXCEPT !.keyRecord = Some(key)])]
           \/ \E key \in matching :
                    reqs' = [reqs EXCEPT ![i] =
                        [r EXCEPT !.pc = "w_cache_put", !.keyRecord = Some(key),
                                  !.keyData = Some(W_KeyDataOf(key))]]
    /\ UNCHANGED <<now, ticks, apiKeys, keyCache, rateLimit, envAllowed, backendLog, probe, streams, messageRows, adapter>>

\* verifyApiKey: the cache entry is written, fetch() runs on to the rate
\* limiter's first await
W_CachePut(i) ==
    /\ reqs[i].pc = "w_cache_put"
    /\ LET r == reqs[i]
           keyData == Val(r.keyData)
           prefix == KeyPrefix(ApiKeyOf(r))
       IN  /\ keyCache' = [p \in (DOMAIN keyCache) \cup {prefix} |->
                             IF p = prefix
                             THEN [data |-> keyData, expiresAt |-> now + W_CACHE_TTL]
                             ELSE keyCache[p]]
           /\ reqs' = [reqs EXCEPT ![i] = W_AfterVerified(r, keyData, now)]
    /\ UNCHANGED <<now, ticks, apiKeys, rateLimit, envAllowed, backendLog, probe, streams, messageRows, adapter>>

\* checkRateLimit: env.RATE_LIMIT.get answers
W_RateLimitGet(i) ==
    /\ reqs[i].pc = "w_rl_get"
    /\ LET r == reqs[i]
           current == RateLimitCount(rateLimit, <<r.rl.identifier, r.rl.windowStart>>, now)
       IN  reqs' = [reqs EXCEPT ![i] =
              IF current >= r.rl.limit
              THEN Respond([r EXCEPT !.rl.count = current,
                                     !.rlResult = Some([allowed |-> FALSE, remaining |-> 0,
                                                        resetAt |-> r.rl.resetAt])],
                           [ W_errorResponse("RATE_LIMITED", <<"Rate limit exceeded">>, 429,
                                             r.origin)
                               EXCEPT !.limit = Some(r.rl.limit), !.remaining = Some(0),
                                      !.retryAfter = Some((r.rl.resetAt \div 1000) - now) ])
              ELSE [r EXCEPT !.pc = "w_rl_put", !.rl.count = current]]
    /\ UNCHANGED <<now, ticks, apiKeys, keyCache, rateLimit, envAllowed, backendLog, probe, streams, messageRows, adapter>>

\* checkRateLimit: env.RATE_LIMIT.put(current + 1) is applied
W_RateLimitPut(i) ==
    /\ reqs[i].pc = "w_rl_put"
    /\ LET r == reqs[i]
           key == <<r.rl.identifier, r.rl.windowStart>>
       IN  /\ rateLimit' = [k \in (DOMAIN rateLimit) \cup {key} |->
                              IF k = key
                              THEN [count |-> r.rl.count + 1, resetAt |-> r.rl.resetAt,
                                    expiresAt |-> now + W_RATE_TTL]
                              ELSE rateLimit[k]]
           /\ reqs' = [reqs EXCEPT ![i] =
                  [r EXCEPT !.pc = "w_forward",
                            !.rlResult = Some([allowed |-> TRUE,
                                remaining |-> r.rl.limit - r.rl.count - 1,
                                resetAt |-> r.rl.resetAt])]]
    /\ UNCHANGED <<now, ticks, apiKeys, keyCache, envAllowed, backendLog, probe, streams, messageRows, adapter>>

\* fetch(): forwardHeaders, built afresh
W_ForwardHeaders(r) ==
    LET keyData == Val(r.keyData)
    IN  ("x-funchat-api-key-id" :> keyData.id)
        @@ ("x-funchat-app-id" :> IF IsSome(keyData.app_id) THEN Val(keyData.app_id) ELSE "")
        @@ ("x-funchat-user-id" :> keyData.user_id)
        @@ ("x-funchat-scopes" :> keyData.scopes)

\* fetch(targetUrl) is sent and answered (or throws, which nothing catches)
W_Forward(i) ==
    /\ reqs[i].pc = "w_forward"
    /\ LET r == reqs[i]
           keyData == Val(r.keyData)
           cors == Truthy(r.origin) /\ (Len(keyData.allowed_origins) = 0
                                        \/ Includes(keyData.allowed_origins, Val(r.origin)))
       IN  /\ backendLog' = Append(backendLog,
                  [ req |-> i, route |-> "worker", method |-> r.method, path |-> r.path,
                    headers |-> W_ForwardHeaders(r) ])
           /\ \E outcome \in {"ok", "error", "throws"} :
                 reqs' = [reqs EXCEPT ![i] = Respond(r,
                     IF outcome = "throws" THEN uncaughtResponse
                     ELSE [ proxiedResponse(IF outcome = "ok" THEN 200 ELSE 500, r.requestId,
                                            IF cors THEN r.origin ELSE None, r.rl.limit,
                                            Val(r.rlResult).remaining, r.rl.resetAt)
                              EXCEPT !.reset = None, !.requestId = None ])]
    /\ UNCHANGED <<now, ticks, apiKeys, keyCache, rateLimit, envAllowed, probe, streams, messageRows, adapter>>

W_Step ==
    \/ \E i \in 1..Len(reqs) : W_CacheGet(i)
    \/ \E i \in 1..Len(reqs) : W_Query(i)
    \/ \E i \in 1..Len(reqs) : W_CachePut(i)
    \/ \E i \in 1..Len(reqs) : W_RateLimitGet(i)
    \/ \E i \in 1..Len(reqs) : W_RateLimitPut(i)
    \/ \E i \in 1..Len(reqs) : W_Forward(i)
    \/ Tick

\* a row of the identity store as the basic gateway's hash scheme writes it
W_KeyRow(id, userId, appId, apiKey, salt, scopes, origins, limit, active, expiresAt) ==
    [ id |-> id, user_id |-> userId, app_id |-> appId,
      scopes |-> scopes, allowed_origins |-> origins, rate_limit |-> limit,
      is_active |-> active, expires_at |-> expiresAt, key_salt |-> salt,
      key_prefix |-> KeyPrefix(apiKey), key_hash |-> W_hashApiKey(apiKey, salt) ]

\* the exact key and every key that differs from it in one character
OneCharacterOff(apiKey) ==
    {[apiKey EXCEPT ![p] = "z"] : p \in 1..Len(apiKey)} \ {apiKey}

WorkerPool ==
    { MkRequest("GET", PathChatMessages, Some(apiKey), None, None) :
        apiKey \in {Key1} \cup OneCharacterOff(Key1) }

WorkerInit ==
    InitWith({ { W_KeyRow("k1", "u1", None, Key1, Salt1, <<"chat:read">>, <<>>, limit,
                          TRUE, None),
                 W_KeyRow("k2", "u2", Some("app2"), Key2, Salt2, <<"chat:write">>, <<>>, 1,
                          FALSE, None) } : limit \in {0, 1} },
             {None}, {NoProbe})

WorkerNext ==
    \/ W_Arrive(WorkerPool, MaxRequests, 1)
    \/ W_Step

WorkerSpec == WorkerInit /\ [][WorkerNext]_vars

\* verifyApiKey has returned in the basic gateway's handler i
W_Verified(i) ==
    /\ reqs[i].route = "worker"
    /\ reqs[i].pc \notin {"start", "w_cache_get", "w_query"}
    /\ HeadersGet(reqs[i].headers, "x-funchat-api-key") # None

\* the presented key's salted hash equals the stored hash of a record with
\* its lookup prefix
W_HashMatchesStore(i) ==
    \E row \in apiKeys :
        /\ row.key_prefix = SubSeq(ApiKeyOf(reqs[i]), 1, KEY_PREFIX_LEN)
        /\ Sha256(row.key_salt \o ApiKeyOf(reqs[i])) = row.key_hash

\* C7: verifyApiKey accepts a key only if its salted hash equals the stored
\* hash of the record with its lookup prefix, and accepts it whenever a record
\* was served (from the cache or the store) and the hashes are equal; so a
\* key one character off the exact key is never accepted.
C7_AcceptsExactlyMatchingHash ==
    \A i \in Handlers :
        W_Verified(i) =>
            /\ IsSome(reqs[i].keyData) => W_HashMatchesStore(i)
            /\ (IsSome(reqs[i].keyRecord) /\ W_HashMatchesStore(i)) => IsSome(reqs[i].keyData)
(***************************************************************************)
(* Credential specification: one request at a time, failing each           *)
(* credential check in turn.                                               *)
(***************************************************************************)
MalformedAuth ==
    Some([scheme |-> "Bearer", token |-> [wellFormed |-> FALSE, exp |-> 0, sub |-> ""]])

ExpiredAuth == BearerOf(1, "u1")

CredentialPool ==
    { MkRequest("GET", PathV1Profiles, None, None, MalformedAuth),
      MkRequest("GET", PathV1Profiles, None, None, ExpiredAuth),
      MkRequest("GET", PathChatMessages, Some(KeyBadFormat), None, None),
      MkRequest("GET", PathChatMessages, Some(Key1PrefixMutated), None, None),
      MkRequest("GET", PathChatMessages, Some(Key1TailMutated), None, None),
      MkRequest("GET", PathChatMessages, Some(Key1), None, None) }

CredentialNext ==
    \/ Arrive(CredentialPool, MaxRequests, 1)
    \/ HandlerStep

CredentialSpec == Init /\ [][CredentialNext]_vars

\* the session token handler i presented is absent, malformed or expired
TokenRejected(i) ==
    LET authHeader == HeadersGet(reqs[i].headers, "authorization")
    IN  \/ ~IsSome(authHeader)
        \/ Val(authHeader).scheme # "Bearer"
        \/ ~Val(authHeader).token.wellFormed
        \/ Val(authHeader).token.exp # 0 /\ Val(authHeader).token.exp < StartTime

\* handler i was answered after its credential failed a check
CredentialFailed(i) ==
    /\ Returned(i)
    /\ \/ OnApiKeyRoute(i) /\ ~CredentialVerified(i)
       \/ reqs[i].route = "user" /\ TokenRejected(i)

\* C11: every credential failure gives the same outward error: any two
\* requests answered after a failed credential check (malformed or expired
\* token, malformed key, unknown key prefix, hash mismatch) carry the same
\* status, the same error code and the same message.
C11_OneOutwardError ==
    \A i, j \in Handlers :
        (CredentialFailed(i) /\ CredentialFailed(j)) =>
            /\ Val(reqs[i].resp).status = Val(reqs[j].resp).status
            /\ Val(reqs[i].resp).code = Val(reqs[j].resp).code
            /\ Val(reqs[i].resp).message = Val(reqs[j].resp).message
(***************************************************************************)
(* Stream specifications: a behaviour opens one session.                   *)
(*   StreamSpec        a member's stream, rows inserted at any point,      *)
(*                     the client disconnecting at any point               *)
(*   SessionSpec       streams of a member and of a non-member over a      *)
(*                     table filled beforehand                             *)
(*   SessionFairSpec   the member's stream over such a table, where every  *)
(*                     await of the session settles and time passes        *)
(***************************************************************************)
MkStreamRequest(token, auth) ==
    [MkRequest("GET", PathStreamC1, None, Some(OriginApp), auth) EXCEPT !.token = token]

MemberStream == MkStreamRequest(Some(Val(ValidAuth).token), None)

StreamPool == { MemberStream, MkStreamRequest(None, BearerOf(10 * RATE_LIMIT_WINDOW, "u2")) }

\* a stream request arrives while no session has been opened
StreamArrive(pool) ==
    /\ DOMAIN streams = {}
    /\ Arrive(pool, MaxStreamRequests, 1)

StreamInit == InitWith({ {Row1(1)} }, {None}, {NoProbe})

StreamNext ==
    \/ StreamArrive({MemberStream})
    \/ StreamStep

StreamSpec == StreamInit /\ [][StreamNext]_vars

\* the tables of up to MaxRows rows, one statement each
FilledTables == { [j \in 1..m |-> MessageRow(j, j)] : m \in 0..MaxRows }

SessionInit ==
    /\ InitGateway({ {Row1(1)} }, {None}, {NoProbe})
    /\ streams = NoStreams
    /\ messageRows \in FilledTables
    /\ adapter = NoAdapter

SessionNext ==
    \/ StreamArrive(StreamPool)
    \/ \E i \in 1..Len(reqs) : Membership(i)
    \/ SessionStep

SessionSpec == SessionInit /\ [][SessionNext]_vars

\* every await of a session settles and its timers fire: the runtime resolves
\* pending promises, and time does not stop
SessionFairness ==
    /\ WF_vars(\E i \in 1..Len(reqs) : WriteSettles(i))
    /\ WF_vars(\E i \in 1..Len(reqs) : FetchSettles(i))
    /\ WF_vars(\E i \in 1..Len(reqs) : SleepEnds(i))
    /\ WF_vars(\E i \in 1..Len(reqs) : Elapse(i))

MemberNext ==
    \/ StreamArrive({MemberStream})
    \/ \E i \in 1..Len(reqs) : Membership(i)
    \/ SessionStep

SessionFairSpec == SessionInit /\ [][MemberNext]_vars /\ SessionFairness
(***************************************************************************)
(* Stream sessions: vocabulary.                                            *)
(***************************************************************************)
Sessions == DOMAIN streams

\* the events written in session i, in the order of their writes
Events(i) == SelectSeq(streams[i].writes, LAMBDA w : w.sent = "yes")

\* the identifiers of the message events written in session i, in that order
EmittedIds(i) ==
    LET messages == SelectSeq(Events(i), LAMBDA w : w.event = "message")
    IN  [k \in 1..Len(messages) |-> Val(messages[k].id)]

\* a write of session i has failed
SomeWriteFailed(i) == \E k \in 1..Len(streams[i].writes) : streams[i].writes[k].sent = "no"

\* the loop of session i has returned and its writer is closed
Released(i) == streams[i].pc = "returned" /\ streams[i].closed /\ ~streams[i].isRunning

\* handler i is an authenticated stream request
OnStreamRoute(i) == reqs[i].route = "stream" /\ IsSome(reqs[i].userId)

\* the subject of stream request i is a member of the conversation and the
\* membership lookup answered
MembershipEstablished(i) ==
    /\ <<Val(StreamConversation(reqs[i].path)), Val(reqs[i].userId)>> \in ConversationMembers
    /\ reqs[i].membership = "ok"

C14_EmittedIdsIncrease ==
    \A i \in Sessions :
        LET ids == EmittedIds(i)
        IN  \A a, b \in DOMAIN ids : a < b => ids[a] < ids[b]

\* C16: no write is ever attempted on a closed writer: every call of
\* writer.write in a session happens while the writer is open, wherever in
\* the loop the client's disconnect falls.
C16_NoWriteOnClosedWriter ==
    \A i \in Sessions :
        \A k \in 1..Len(streams[i].writes) : ~streams[i].writes[k].closed

\* C17: a failed write is terminal: a write that failed is the last write
\* of its session, and once it has failed the loop has returned and the
\* writer is closed.
C17_FailedWriteIsTerminal ==
    \A i \in Sessions :
        \A k \in 1..Len(streams[i].writes) :
            streams[i].writes[k].sent = "no" =>
                k = Len(streams[i].writes) /\ Released(i)

\* the writes of `reconnect` events in session i
ReconnectWrites(i) ==
    { k \in 1..Len(streams[i].writes) : streams[i].writes[k].event = "reconnect" }

\* session i is open: its client has not disconnected and no write to its
\* transport has failed
Open(i) == i \in Sessions /\ ~streams[i].aborted /\ ~SomeWriteFailed(i)

\* session i is open and older than the maximum session duration
OpenPastMaxDuration(i) ==
    Open(i) /\ DateNow(now) - streams[i].startTime > SSE_MAX_DURATION

\* session i wrote one `reconnect` event as its last event and is released
ReconnectedAndReleased(i) ==
    /\ i \in Sessions
    /\ Released(i)
    /\ Cardinality(ReconnectWrites(i)) = 1
    /\ Len(Events(i)) > 0 /\ Events(i)[Len(Events(i))].event = "reconnect"

\* a session holds at most one `reconnect` write, no write follows it, and
\* once it has settled the loop has returned and the writer is closed
ReconnectIsFinal ==
    \A i \in Sessions :
        /\ Cardinality(ReconnectWrites(i)) <= 1
        /\ \A k \in ReconnectWrites(i) :
              /\ k = Len(streams[i].writes)
              /\ streams[i].writes[k].sent # "pending" => Released(i)

\* C15: a session writes at most one `reconnect` event, it is the last
\* event of the session and the writer is closed right after it; and a
\* stream that is open when its age exceeds the maximum session duration
\* comes to write that event and be released, unless its client disconnects
\* or a write to it fails first: it never hangs.
C15_ReconnectThenClose ==
    /\ []ReconnectIsFinal
    /\ \A i \in 1..MaxStreamRequests :
          OpenPastMaxDuration(i) ~> (ReconnectedAndReleased(i) \/ ~Open(i))

\* an open session wrote `reconnect` as its last event and was released
C15_SessionReconnected ==
    \E i \in Sessions : Open(i) /\ ReconnectedAndReleased(i)
(***************************************************************************)
(* Correlation ids: one request of each route, the random suffix of         *)
(* generateRequestId drawn from two values.                                *)
(***************************************************************************)
PathHealth == PUBLIC_ROUTES[1]

PathUnknown == <<"/", "x">>

RandomSuffixes == {"r1", "r2"}

RoutePool ==
    { [req EXCEPT !.rand = rand] :
        req \in { MkRequest("OPTIONS", PathChatMessages, None, Some(OriginApp), None),
                  MkRequest("GET", PathHealth, None, None, None),
                  MkRequest("GET", PathChatMessages, Some(Key1), None, None),
                  MemberStream,
                  MkRequest("GET", PathV1Profiles, None, None, ValidAuth),
                  MkRequest("GET", PathUnknown, None, None, None) },
        rand \in RandomSuffixes }

IdNext ==
    \/ Arrive(RoutePool, MaxRequests, 1)
    \/ HandlerStep
    \/ \E i \in 1..Len(reqs) : Membership(i)

IdSpec == Init /\ [][IdNext]_vars

\* C12: every response the gateway returns carries the correlation id
\* generated for its request, on every route (preflight, public, API-key,
\* stream, user-session, not-found), and two different requests never carry
\* the same id.
C12_EveryResponseCarriesOwnId ==
    /\ \A i \in Handlers :
          Returned(i) => Val(reqs[i].resp).requestId = Some(reqs[i].requestId)
    /\ \A i, j \in Handlers : i # j => reqs[i].requestId # reqs[j].requestId
(***************************************************************************)
(* Client specifications: the mounted hook of user u1 in one conversation. *)
(*   ClientSpec       sends, their HTTP outcomes, echoes by stream and by  *)
(*                    poll, retries, and a stream that opens and errors    *)
(*   FailingStreamSpec  the same adapter where no stream connection ever   *)
(*                    opens: every attempt errors; timers fire and HTTP    *)
(*                    calls settle (fairness), the user acts when they     *)
(*                    like                                                 *)
(***************************************************************************)
ClientInit ==
    /\ InitGateway({ {Row1(1)} }, {None}, {NoProbe})
    /\ streams = NoStreams
    /\ messageRows = <<>>
    /\ adapter = MountedAdapter

ClientNext ==
    \/ SendMessage
    \/ \E k \in 1..MaxSends : ServerStores(k)
    \/ \E k \in 1..MaxSends : SendSettles(k)
    \/ StreamPush
    \/ Poll
    \/ RetryMessage
    \/ ConnOpens
    \/ ConnErrors
    \/ ReconnectTimer
    \/ TokenLost

ClientSpec == ClientInit /\ [][ClientNext]_vars

FailingStreamNext ==
    \/ SendMessage
    \/ \E k \in 1..MaxSends : ServerStores(k)
    \/ \E k \in 1..MaxSends : SendSettles(k)
    \/ Poll
    \/ RetryMessage
    \/ ConnErrors
    \/ ReconnectTimer

\* every connection attempt errors, the reconnect timer fires, the polling
\* timer fires and HTTP calls settle; nothing obliges the user to act
FailingStreamFairness ==
    /\ WF_vars(ConnErrors)
    /\ WF_vars(ReconnectTimer)
    /\ WF_vars(Poll)
    /\ WF_vars(\E k \in 1..MaxSends : SendSettles(k))

FailingStreamSpec == ClientInit /\ [][FailingStreamNext]_vars /\ FailingStreamFairness

\* the entries of the list standing for send call k
EntriesFor(k) == { j \in 1..Len(adapter.messages) : adapter.messages[j].logical = k }

\* C18: the message list never holds two entries for one logical message,
\* and an echo takes the place of the pending entry: the entries stand in
\* the order of their send calls, whatever the interleaving of a send's
\* HTTP outcome with the arrival of its echo by stream push or by poll.
C18_EchoReplacesInPlace ==
    /\ \A k \in 1..Len(adapter.sends) : Cardinality(EntriesFor(k)) <= 1
    /\ \A i, j \in 1..Len(adapter.messages) :
          i < j => adapter.messages[i].logical <= adapter.messages[j].logical

\* C19: when every stream connection attempt errors, the adapter comes to
\* switch to polling (useSSE becomes false), and once polling it never goes
\* back to the stream.
C19_FallsBackToPolling ==
    /\ <>(~adapter.useSSE)
    /\ [][~adapter.useSSE => ~adapter'.useSSE]_vars

\* C20: a step of retryMessage on a failed entry leaves no entry with the
\* failed entry's id and exactly one new pending entry for it: a new send
\* call of the same content and type, its entry last in the list.
C20_RetryResubmits ==
    [][adapter.retried # adapter'.retried =>
          LET id == adapter'.retried[Len(adapter'.retried)]
              old == adapter.messages[CHOOSE j \in 1..Len(adapter.messages) :
                                          adapter.messages[j].id = id]
              new == adapter'.messages[Len(adapter'.messages)]
          IN  /\ \A j \in 1..Len(adapter'.messages) : adapter'.messages[j].id # id
              /\ Len(adapter'.sends) = Len(adapter.sends) + 1
              /\ Len(adapter'.messages) > 0
              /\ new.id = TempId(Len(adapter'.sends))
              /\ new.sending /\ ~new.failed
              /\ new.content = old.content /\ new.message_type = old.message_type]_vars
(***************************************************************************)
(* Forwarding outcomes.                                                    *)
(***************************************************************************)
\* C21: when the proxy call throws, the gateway answers the error envelope
\* 500 INTERNAL_ERROR on the user-session route and on the API-key route
\* alike; when the backend answers, the caller gets the backend's status.
C21_ProxyFailureNormalized ==
    \A k \in 1..Len(backendLog) :
        LET i == backendLog[k].req
            resp == Val(reqs[i].resp)
        IN  Returned(i) =>
               IF backendLog[k].outcome = "throws"
               THEN /\ resp.kind = "envelope"
                    /\ resp.status = 500 /\ resp.code = "INTERNAL_ERROR"
               ELSE /\ resp.kind = "proxied"
                    /\ resp.status = BackendStatus(backendLog[k].outcome)
(***************************************************************************)
(* Session tokens: requests of the user-session and stream routes whose    *)
(* token is malformed, has no exp claim, or expires before, at or after    *)
(* the second of the request.                                              *)
(***************************************************************************)
\* the credential the route of handler i reads: the stream route takes the
\* token query parameter before the Authorization header
PresentedAuth(i) ==
    IF reqs[i].route = "stream" /\ IsSome(reqs[i].token)
    THEN Some([scheme |-> "Bearer", token |-> Val(reqs[i].token)])
    ELSE HeadersGet(reqs[i].headers, "authorization")

OnTokenRoute(i) == reqs[i].route \in {"user", "stream"}

\* handler i presented a bearer token of well-formed structure
TokenWellFormed(i) ==
    /\ IsSome(PresentedAuth(i))
    /\ Val(PresentedAuth(i)).scheme = "Bearer"
    /\ Val(PresentedAuth(i)).token.wellFormed

\* the expiry of handler i's token lies after the second of its arrival
TokenUnexpired(i) == Val(PresentedAuth(i)).token.exp > reqs[i].at

TokenExpiries == {0, StartTime - 1, StartTime, StartTime + 1}

ProbeTokens ==
    { [wellFormed |-> wellFormed, exp |-> exp, sub |-> "u1"] :
        wellFormed \in BOOLEAN, exp \in TokenExpiries }

TokenPool ==
    { MkRequest("GET", PathV1Profiles, None, None,
                Some([scheme |-> "Bearer", token |-> token])) : token \in ProbeTokens }
       \cup { MkStreamRequest(Some(token), None) : token \in ProbeTokens }
       \cup { MkRequest("GET", PathV1Profiles, None, None, None) }

TokenNext ==
    \/ Arrive(TokenPool, MaxRequests, 1)
    \/ \E i \in 1..Len(reqs) : RateLimitGet(i)
    \/ \E i \in 1..Len(reqs) : RateLimitPut(i)
    \/ \E i \in 1..Len(reqs) : Forward(i)
    \/ \E i \in 1..Len(reqs) : Membership(i)

TokenSpec == StreamInit /\ [][TokenNext]_vars

\* C24: a request on a user-session or stream route whose token is absent,
\* malformed or not unexpired (its expiry does not lie in the future) is
\* answered 401 UNAUTHORIZED at once and is never rate-limited, forwarded
\* or streamed.
C24_OnlyUnexpiredTokensAccepted ==
    \A i \in Handlers :
        (OnTokenRoute(i) /\ ~(TokenWellFormed(i) /\ TokenUnexpired(i))) =>
            /\ Returned(i)
            /\ Val(reqs[i].resp).status = 401
            /\ Val(reqs[i].resp).code = "UNAUTHORIZED"
            /\ reqs[i].rl = NoRateLimit
            /\ ~Forwarded(i)
            /\ i \notin Sessions

(***************************************************************************)
(* Status specification: one request at a time over every failure class:   *)
(* keys that fail verification, a key record violating one policy          *)
(* condition, a key over its limit, rejected tokens, a non-member's stream *)
(* and an unmatched path.                                                  *)
(***************************************************************************)
StatusPool ==
    { MkRequest("POST", PathChatMessages, Some(Key2), Some(OriginOther), None),
      MkRequest("GET", PathChatMessages, Some(Key1), Some(OriginApp), None),
      MkRequest("GET", PathChatMessages, Some(Key1TailMutated), Some(OriginApp), None),
      MkRequest("GET", PathChatMessages, Some(KeyBadFormat), None, None),
      MkRequest("GET", PathV1Profiles, None, None, ExpiredAuth),
      MkRequest("GET", PathV1Profiles, None, None, None),
      MkStreamRequest(None, BearerOf(10 * RATE_LIMIT_WINDOW, "u2")),
      MkRequest("GET", PathUnknown, None, None, ValidAuth) }

StatusInit ==
    InitWith({ {Row1(1), Row2(TRUE, None, <<>>, <<"chat:write">>)},
               {Row1(1), Row2(FALSE, None, <<>>, <<"chat:write">>)},
               {Row1(1), Row2(TRUE, ExpiredLongAgo, <<>>, <<"chat:write">>)},
               {Row1(1), Row2(TRUE, None, <<OriginApp>>, <<"chat:write">>)},
               {Row1(1), Row2(TRUE, None, <<>>, <<>>)} },
             {None}, {NoProbe})

StatusNext ==
    \/ Arrive(StatusPool, MaxRequests, 1)
    \/ HandlerStep
    \/ \E i \in 1..Len(reqs) : Membership(i)

StatusSpec == StatusInit /\ [][StatusNext]_vars

\* handler i's credential is missing, invalid or expired: its key fails
\* verification, or its route reads a token that is absent, malformed or has
\* an expiry in the past
AuthenticationFailed(i) ==
    \/ OnApiKeyRoute(i) /\ ~CredentialVerified(i)
    \/ /\ OnTokenRoute(i)
       /\ \/ ~TokenWellFormed(i)
          \/ /\ Val(PresentedAuth(i)).token.exp # 0
             /\ Val(PresentedAuth(i)).token.exp < reqs[i].at

\* handler i's credential is good and it is not entitled: its key is
\* inactive, expired, used from an origin not allowed or lacks the scope, or
\* its subject is not established as a member of the conversation
AuthorizationFailed(i) ==
    \/ OnApiKeyRoute(i) /\ CredentialVerified(i) /\ ~PolicyPassed(i)
    \/ /\ reqs[i].route = "stream" /\ ~AuthenticationFailed(i)
       /\ reqs[i].membership # "none" /\ ~MembershipEstablished(i)

\* handler i's key is entitled and its counter had reached the limit
RateLimitExceeded(i) ==
    OnApiKeyRoute(i) /\ CredentialVerified(i) /\ PolicyPassed(i) /\ ~WithinRateLimit(i)

\* the status of the failure class of handler i, 0 when it is in none
ClassStatus(i) ==
    IF reqs[i].route = "not_found" THEN 404
    ELSE IF AuthenticationFailed(i) THEN 401
    ELSE IF AuthorizationFailed(i) THEN 403
    ELSE IF RateLimitExceeded(i) THEN 429
    ELSE 0

RevokePool == { MkRequest("GET", PathChatMessages, Some(Key1), Some(OriginApp), None) }

\* the ways a key is revoked in table api_keys
Revocations == {"deactivated", "deleted"}

\* the identity store after the revocation of the rows with the prefix
Revoked(store, prefix, how) ==
    IF how = "deleted" THEN {row \in store : row.key_prefix # prefix}
    ELSE {IF row.key_prefix = prefix THEN [row EXCEPT !.is_active = FALSE] ELSE row :
              row \in store}

\* the key's owner (or an administrator) revokes the key
Revoke ==
    /\ probe = NoProbe
    /\ \E how \in Revocations :
          /\ apiKeys' = Revoked(apiKeys, KeyPrefix(Key1), how)
          /\ probe' = [fn |-> "revoke", how |-> how, at |-> now, arrived |-> Len(reqs)]
    /\ UNCHANGED <<now, ticks, keyCache, rateLimit, envAllowed, reqs, backendLog, streams, messageRows, adapter>>

\* waits of one behaviour of the revocation specification
MaxWaits == 2

\* time passes between two requests: the cache lifetime, or a second less
Wait ==
    /\ ticks < MaxWaits
    /\ InFlight = {}
    /\ ticks' = ticks + 1
    /\ \E d \in {CACHE_TTL - 1, CACHE_TTL} : now' = now + d
    /\ UNCHANGED <<apiKeys, keyCache, rateLimit, envAllowed, reqs, backendLog, probe, streams, messageRows, adapter>>

RevokeInit == InitWith({ {Row1(2)} }, {None}, {NoProbe})

RevokeNext ==
    \/ Arrive(RevokePool, MaxRequests, 1)
    \/ HandlerStep
    \/ Revoke
    \/ Wait

RevokeSpec == RevokeInit /\ [][RevokeNext]_vars

\* handler i arrived when its key was already revoked
ArrivedRevoked(i) == probe # NoProbe /\ i > probe.arrived

\* verifyApiKey has returned to handler i (or i never called it)
KeyDecided(i) == reqs[i].pc \notin {"cache_get", "rpc", "key_hash", "cache_put"}

\* handler i's key was rejected: 401 from verifyApiKey or 403 from the policy
KeyRejected(i) ==
    /\ Returned(i)
    /\ Val(reqs[i].resp).kind = "envelope"
    /\ Val(reqs[i].resp).status \in {401, 403}
    /\ ~Forwarded(i)

\* handler j loaded the key's record from the store into the cache, at
\* reqs[j].policyAt
LoadedCache(j) ==
    /\ IsSome(reqs[j].keyRecord)
    /\ IsSome(reqs[j].keyData)
    /\ KeyDecided(j)

PreflightPool ==
    { MkRequest("OPTIONS", path, apiKey, origin, None) :
        path \in {PathChatMessages, PathStreamC1, PathHealth, PathUnknown},
        apiKey \in {None, Some(Key1)},
        origin \in {None, Some(OriginApp), Some(OriginOther)} }
    \cup { MkRequest("OPTIONS", PathV1Profiles, None, Some(OriginApp), ValidAuth),
           MkRequest("GET", PathChatMessages, Some(Key1), Some(OriginOther), None) }

PreflightInit == InitWith({ {Row1(2)} }, {None, Some(EnvAllowedText)}, {NoProbe})

PreflightNext ==
    \/ Arrive(PreflightPool, MaxRequests, 1)
    \/ HandlerStep

PreflightSpec == PreflightInit /\ [][PreflightNext]_vars

\* handler i serves an OPTIONS request
IsPreflight(i) == reqs[i].method = "OPTIONS"

\* handler i has its 204 answer and never called verifyApiKey,
\* verifyAuthHeader, checkRateLimit or the backend
AnsweredWithoutAuth(i) ==
    /\ Returned(i)
    /\ Val(reqs[i].resp).kind = "preflight"
    /\ Val(reqs[i].resp).status = 204
    /\ reqs[i].keyRecord = None /\ reqs[i].keyData = None /\ reqs[i].userId = None
    /\ reqs[i].rl = NoRateLimit /\ reqs[i].rlResult = None
    /\ ~Forwarded(i)
    /\ i \notin DOMAIN streams

\* C25: an OPTIONS request is answered 204 in the step of its arrival, for
\* any path and any headers: its handler has no credential lookup, no rate
\* limiter call, no backend call and no stream, and its arrival leaves the
\* key cache, the rate-limit counters and the backend log as they were
C25_PreflightTouchesNothing ==
    /\ [](\A i \in 1..Len(reqs) : IsPreflight(i) => AnsweredWithoutAuth(i))
    /\ [][(Len(reqs') = Len(reqs) + 1 /\ reqs'[Len(reqs')].method = "OPTIONS") =>
             /\ keyCache' = keyCache
             /\ rateLimit' = rateLimit
             /\ backendLog' = backendLog
             /\ apiKeys' = apiKeys]_vars

\* a preflight carrying a valid key was answered while the key's cache
\* entry and counter, written by an earlier request, stayed as they were
C25_PreflightWithKeyAnswered ==
    \E i \in 1..Len(reqs) :
        /\ IsPreflight(i)
        /\ Truthy(HeadersGet(reqs[i].headers, "x-funchat-api-key"))
        /\ Returned(i)
        /\ KeyPrefix(Key1) \in DOMAIN keyCache
        /\ Len(backendLog) = 1

\* C26: a preflight answer, which always allows credentials, names an
\* origin of the allow-list in Access-Control-Allow-Origin: never `*`, never
\* an origin outside the list
C26_PreflightOriginAllowListed ==
    \A i \in 1..Len(reqs) :
        (IsPreflight(i) /\ Returned(i)) =>
            LET acao == Val(reqs[i].resp).acao
                allowList == EnvOrigins(envAllowed)
            IN  /\ IsSome(acao)
                /\ Val(acao) # <<"*">>
                /\ \E k \in 1..Len(allowList) : Val(acao) = allowList[k]

(***************************************************************************)
(* Classification specification: requests of every class, each path with  *)
(* no key header, an empty one and a valid key, all carrying a valid       *)
(* session token, handled one at a time.                                   *)
(***************************************************************************)
PathRoot == PUBLIC_ROUTES[2]

PathHealthSub == PathHealth \o <<"/", "x">>

ClassifyPaths ==
    {PathHealth, PathRoot, PathHealthSub, PathChatMessages, PathStreamC1, PathV1Profiles,
     PathUnknown}

ClassifyPool ==
    { MkRequest("GET", path, apiKey, Some(OriginApp), ValidAuth) :
        path \in ClassifyPaths, apiKey \in {None, Some(<<>>), Some(Key1)} }
    \cup { MkRequest("OPTIONS", path, Some(Key1), Some(OriginApp), ValidAuth) :
             path \in {PathHealth, PathStreamC1, PathUnknown} }

ClassifyInit == InitWith({ {Row1(2)} }, {None}, {NoProbe})

ClassifyNext ==
    \/ Arrive(ClassifyPool, MaxRequests, 1)
    \/ HandlerStep
    \/ \E i \in 1..Len(reqs) : Membership(i)

ClassifySpec == ClassifyInit /\ [][ClassifyNext]_vars

\* the class the precedence list gives a request, keyed telling whether the
\* request counts as carrying the key header
ClassOf(method, pathname, keyed) ==
    CASE method = "OPTIONS" -> "preflight"
      [] method # "OPTIONS" /\ pathname \in {PathHealth, PathRoot} -> "public"
      [] method # "OPTIONS" /\ pathname \notin {PathHealth, PathRoot} /\ keyed -> "api_key"
      [] method # "OPTIONS" /\ pathname \notin {PathHealth, PathRoot} /\ ~keyed
            /\ IsSome(StreamConversation(pathname)) -> "stream"
      [] method # "OPTIONS" /\ pathname \notin {PathHealth, PathRoot} /\ ~keyed
            /\ ~IsSome(StreamConversation(pathname))
            /\ (\E k \in 1..Len(USER_ROUTES) : StartsWith(pathname, USER_ROUTES[k])) -> "user"
      [] OTHER -> "not_found"

\* what handler i did is what the gateway does with a request of the class
Took(i, class) ==
    LET r == reqs[i]
        noAuth == r.keyRecord = None /\ r.keyData = None /\ r.userId = None
                    /\ r.rl = NoRateLimit /\ ~Forwarded(i) /\ i \notin DOMAIN streams
    IN  CASE class = "preflight" ->
                Returned(i) /\ Val(r.resp).kind = "preflight" /\ noAuth
          [] class = "public" ->
                /\ Returned(i) /\ Val(r.resp).kind = "envelope"
                /\ Val(r.resp).ok /\ Val(r.resp).status = 200 /\ noAuth
          [] class = "api_key" ->
                /\ r.userId = None /\ i \notin DOMAIN streams
                /\ \/ r.pc \in {"cache_get", "rpc", "key_hash", "cache_put"}
                   \/ IsSome(r.keyData) /\ (r.rl # NoRateLimit => r.rl.identifier[1] = "key")
                   \/ Returned(i) /\ Val(r.resp).code = "INVALID_API_KEY"
          [] class = "stream" ->
                /\ IsSome(r.userId) /\ r.keyData = None
                /\ r.rl = NoRateLimit /\ ~Forwarded(i)
                /\ r.pc = "membership" \/ r.membership # "none"
          [] class = "user" ->
                /\ r.keyData = None /\ i \notin DOMAIN streams /\ r.membership = "none"
                /\ r.rl # NoRateLimit /\ r.rl.identifier[1] = "user"
          [] OTHER ->
                /\ Returned(i) /\ Val(r.resp).kind = "envelope"
                /\ Val(r.resp).status = 404 /\ Val(r.resp).code = "NOT_FOUND" /\ noAuth

\* C27: every request is handled as the class the precedence list gives it:
\* OPTIONS preflight; else an exact public path; else a key header with a
\* non-empty value the API-key route; else the stream pattern the SSE
\* route; else a user-route prefix the user-session route; else 404
\* NOT_FOUND without forwarding.  A key header with an empty value counts as
\* no key header
C27_ClassifiedByPrecedence ==
    \A i \in 1..Len(reqs) :
        Took(i, ClassOf(reqs[i].method, reqs[i].path,
                        Truthy(HeadersGet(reqs[i].headers, "x-funchat-api-key"))))

\* C27 as stated: the presence of the key header selects the API-key route
C27_KeyHeaderPresenceSelects ==
    \A i \in 1..Len(reqs) :
        Took(i, ClassOf(reqs[i].method, reqs[i].path,
                        IsSome(HeadersGet(reqs[i].headers, "x-funchat-api-key"))))

\* the stream path without a key went to the membership check, and a user
\* path with an empty key header was forwarded on the user-session route
C27_StreamAndEmptyKeyClassified ==
    \E i, k \in 1..Len(reqs) :
        /\ reqs[i].path = PathStreamC1 /\ reqs[i].method = "GET"
        /\ HeadersGet(reqs[i].headers, "x-funchat-api-key") = None
        /\ reqs[i].membership # "none"
        /\ reqs[k].path = PathV1Profiles
        /\ HeadersGet(reqs[k].headers, "x-funchat-api-key") = Some(<<>>)
        /\ Forwarded(k)

(***************************************************************************)
(* Rewrite specification: user-session requests for every entry of the     *)
(* user-route list, the bare prefix and a path below it, handled one at a  *)
(* time.                                                                   *)
(***************************************************************************)
RewritePool ==
    { MkRequest("GET", USER_ROUTES[k] \o tail, None, Some(OriginApp), ValidAuth) :
        k \in 1..Len(USER_ROUTES), tail \in {<<>>, <<"/", "7">>} }

RewriteInit == InitWith({ {Row1(2)} }, {None}, {NoProbe})

RewriteNext ==
    \/ Arrive(RewritePool, MaxRequests, 1)
    \/ \E i \in 1..Len(reqs) : RateLimitGet(i)
    \/ \E i \in 1..Len(reqs) : RateLimitPut(i)
    \/ \E i \in 1..Len(reqs) : Forward(i)

RewriteSpec == RewriteInit /\ [][RewriteNext]_vars

\* the backend prefix of each entry of USER_ROUTES, in the order of the list
BackendPrefixes ==
    << S_api_users \o <<"/", "m", "e">>,
       S_api_users \o <<"/", "p", "r", "o", "f", "i", "l", "e", "s">>,
       S_api_chat \o <<"/", "c", "o", "n", "v", "e", "r", "s", "a", "t", "i", "o", "n", "s">>,
       S_api_chat \o <<"/", "m", "e", "s", "s", "a", "g", "e", "s">>,
       S_api_users,
       S_api_chat \o <<"/", "r", "e", "a", "c", "t", "i", "o", "n", "s">>,
       S_api_chat \o <<"/", "r", "e", "a", "d", "-", "r", "e", "c", "e", "i", "p", "t", "s">>,
       S_api_chat \o <<"/", "m", "e", "d", "i", "a">>,
       <<"/", "a", "p", "i", "-", "r", "e", "w", "a", "r", "d", "s">> >>

\* entry k of USER_ROUTES is the route of the path: the path is the entry, or
\* continues it with a further segment
OwnRoute(pathname, k) ==
    \/ pathname = USER_ROUTES[k]
    \/ StartsWith(pathname, USER_ROUTES[k] \o <<"/">>)

\* C28: a request forwarded on the user-session route goes to the backend
\* prefix of its own route, the rest of its path unchanged
C28_RewrittenToOwnPrefix ==
    \A n \in 1..Len(backendLog) :
        backendLog[n].route = "user" =>
            \A k \in 1..Len(USER_ROUTES) :
                OwnRoute(reqs[backendLog[n].req].path, k) =>
                    backendLog[n].path =
                        BackendPrefixes[k] \o SliceFrom(reqs[backendLog[n].req].path,
                                                        Len(USER_ROUTES[k]))

\* C29: in a window, the calls with a key of rate limit 2 are admitted with
\* remaining 1, then 0, and the next is answered 429; every 429 answer
\* carries a Retry-After greater than 0
C29_RetryAfterPositive ==
    \A i \in 1..Len(reqs) :
        /\ (Admitted(i) /\ reqs[i].rl.limit = 2) =>
              Val(reqs[i].rlResult).remaining = 1 - reqs[i].admittedBefore
        /\ (Returned(i) /\ Val(reqs[i].resp).status = 429) =>
              /\ IsSome(Val(reqs[i].resp).retryAfter)
              /\ Val(Val(reqs[i].resp).retryAfter) > 0

(***************************************************************************)
(* Closing specification: one member's session over an empty table or a    *)
(* table of MaxRows rows, under the fairness of the session specification. *)
(***************************************************************************)
ClosingInit ==
    /\ InitGateway({ {Row1(1)} }, {None}, {NoProbe})
    /\ streams = NoStreams
    /\ messageRows \in {t \in FilledTables : Len(t) \in {0, MaxRows}}
    /\ adapter = NoAdapter

ClosingSpec == ClosingInit /\ [][MemberNext]_vars /\ SessionFairness

\* a session whose loop has returned has its writer closed and isRunning
\* false, and it ended by a disconnect, a failed write or the `reconnect`
\* of the duration cap
ReturnedIsClosed ==
    \A i \in Sessions :
        streams[i].pc = "returned" =>
            /\ Released(i)
            /\ streams[i].aborted \/ SomeWriteFailed(i) \/ ReconnectWrites(i) # {}

\* C30: every session opened after the membership check comes to be
\* released (loop returned, writer closed), by a client disconnect, a failed
\* write or the duration cap; none streams forever
C30_EverySessionCloses ==
    /\ []ReturnedIsClosed
    /\ (Sessions # {}) ~> (\A i \in Sessions : Released(i))

\* a session was released after its client disconnected, before the
\* duration cap
C30_ReleasedByDisconnect ==
    \E i \in Sessions :
        Released(i) /\ streams[i].aborted /\ ReconnectWrites(i) = {} /\ ~SomeWriteFailed(i)

(***************************************************************************)
(* Replay specification: a member opens a stream on a conversation that    *)
(* holds one message more than a page of fetchNewMessages.  Identifiers    *)
(* are drawn by gen_random_uuid(): in one table they happen to increase    *)
(* with created_at, in the other the newest message has a smaller          *)
(* identifier than the message before it.                                  *)
(***************************************************************************)
StoredMessages == SSE_FETCH_LIMIT + 1

\* the identifier of the k-th message by created_at when the last two
\* identifiers are drawn in descending order
NewestIdSmaller(k) ==
    IF k = StoredMessages THEN StoredMessages - 1
    ELSE IF k = StoredMessages - 1 THEN StoredMessages
    ELSE k

ReplayTables ==
    { [k \in 1..StoredMessages |-> MessageRow(k, k)],
      [k \in 1..StoredMessages |-> MessageRow(NewestIdSmaller(k), k)] }

ReplayInit ==
    /\ InitGateway({ {Row1(1)} }, {None}, {NoProbe})
    /\ streams = NoStreams
    /\ messageRows \in ReplayTables
    /\ adapter = NoAdapter

ReplaySpec == ReplayInit /\ [][MemberNext]_vars

\* session i has written a `message` event for the message of this id
Delivered(i, id) == \E k \in 1..Len(EmittedIds(i)) : EmittedIds(i)[k] = id

\* the watermark of session i is the greatest identifier stored: no later
\* poll of the session returns a stored message
WatermarkAtGreatest(i) ==
    /\ IsSome(streams[i].lastMessageId)
    /\ \A k \in 1..Len(messageRows) : messageRows[k].id <= Val(streams[i].lastMessageId)

\* C31: every stored message is delivered to the client whatever the number
\* of messages stored: a session whose watermark has passed every stored
\* message has written a `message` event for each of them (each session
\* starts with an empty watermark and replays the same pages, so a message
\* one session skips is skipped by every session)
C31_StoredMessagesDelivered ==
    \A i \in Sessions :
        WatermarkAtGreatest(i) =>
            \A k \in 1..Len(messageRows) : Delivered(i, messageRows[k].id)

\* C32: in every reachable state of the client adapter's message list no two
\* entries share the same id, whatever the interleaving of optimistic sends
\* (two sends of the same content included), HTTP send responses, stream
\* echoes and poll merges.
C32_NoTwoEntriesShareId ==
    \A i, j \in 1..Len(adapter.messages) :
        adapter.messages[i].id = adapter.messages[j].id => i = j

(***************************************************************************)
(* createSSEConnection on its own: one connection object, its closure      *)
(* variables and its pending callbacks.  adapter holds                      *)
(*   eventSource        null ("none") or the readyState of the EventSource *)
(*   reconnectAttempts, isClosedManually    the closure variables          *)
(*   reconnectTimeout   a reconnect timer is pending                       *)
(*   awaitingToken      connect() stands at `await getAccessToken()`       *)
(*   delay              the delay given to the last setTimeout, in ms      *)
(*   scheduled          the delays of the reconnects scheduled since the   *)
(*                      last onopen (history)                              *)
(*   opens, errors      the onopen events and the callbacks.onError calls  *)
(***************************************************************************)
\* successful opens of one connection object in one behaviour
MaxOpens == 2

BASE_RECONNECT_DELAY == 1000

RECURSIVE Pow2(_)
Pow2(n) == IF n = 0 THEN 1 ELSE 2 * Pow2(n - 1)

\* the delay of the reconnect scheduled at a given value of reconnectAttempts
ReconnectDelay(attempts) == BASE_RECONNECT_DELAY * Pow2(attempts)

\* createSSEConnection up to its return: connect() was called and stands at
\* the await of the token
CreatedConnection ==
    [ mode |-> "conn", eventSource |-> "none", reconnectAttempts |-> 0,
      isClosedManually |-> FALSE, reconnectTimeout |-> FALSE, awaitingToken |-> TRUE,
      delay |-> 0, scheduled |-> <<>>, opens |-> 0, errors |-> 0 ]

\* connect() after the await: no token or a throw calls onError, a token
\* makes the EventSource
TokenResolves ==
    /\ adapter.mode = "conn"
    /\ adapter.awaitingToken
    /\ \E outcome \in {"token", "null", "throws"} :
          adapter' = IF outcome = "token"
                     THEN [adapter EXCEPT !.awaitingToken = FALSE,
                                          !.eventSource = "connecting"]
                     ELSE [adapter EXCEPT !.awaitingToken = FALSE, !.errors = @ + 1]
    /\ ClientUnchanged

\* eventSource.onopen
onopen ==
    /\ adapter.mode = "conn"
    /\ adapter.eventSource = "connecting"
    /\ adapter.opens < MaxOpens
    /\ adapter' = [adapter EXCEPT !.eventSource = "open", !.reconnectAttempts = 0,
                                  !.scheduled = <<>>, !.opens = @ + 1]
    /\ ClientUnchanged

\* eventSource.onerror
onerror_AlwaysSchedules ==
    /\ adapter.mode = "conn"
    /\ adapter.eventSource \in {"connecting", "open"}
    /\ adapter' =
          IF ~adapter.isClosedManually
          THEN [adapter EXCEPT !.eventSource = "none",
                               !.delay = ReconnectDelay(adapter.reconnectAttempts),
                               !.reconnectAttempts = @ + 1,
                               !.reconnectTimeout = TRUE,
                               !.scheduled = Append(@, ReconnectDelay(adapter.reconnectAttempts))]
          ELSE [adapter EXCEPT !.eventSource = "none"]
    /\ ClientUnchanged

onerror ==
    /\ adapter.mode = "conn"
    /\ adapter.eventSource \in {"connecting", "open"}
    /\ adapter' =
          IF ~adapter.isClosedManually /\ adapter.reconnectAttempts < MAX_RECONNECT_ATTEMPTS
          THEN [adapter EXCEPT !.eventSource = "none",
                               !.delay = ReconnectDelay(adapter.reconnectAttempts),
                               !.reconnectAttempts = @ + 1,
                               !.reconnectTimeout = TRUE,
                               !.scheduled = Append(@, ReconnectDelay(adapter.reconnectAttempts))]
          ELSE IF adapter.reconnectAttempts >= MAX_RECONNECT_ATTEMPTS
          THEN [adapter EXCEPT !.eventSource = "none", !.errors = @ + 1]
          ELSE [adapter EXCEPT !.eventSource = "none"]
    /\ ClientUnchanged

\* the reconnect timer fires: onReconnect, then connect() up to its await
ReconnectFires ==
    /\ adapter.mode = "conn"
    /\ adapter.reconnectTimeout
    /\ adapter' = [adapter EXCEPT !.reconnectTimeout = FALSE,
                                  !.awaitingToken = ~adapter.isClosedManually]
    /\ ClientUnchanged

\* close() of the returned connection
close ==
    /\ adapter.mode = "conn"
    /\ adapter' = [adapter EXCEPT !.isClosedManually = TRUE, !.reconnectTimeout = FALSE,
                                  !.eventSource = "none"]
    /\ ClientUnchanged

ConnectionInit ==
    /\ InitGateway({ {Row1(1)} }, {None}, {NoProbe})
    /\ streams = NoStreams
    /\ messageRows = <<>>
    /\ adapter = CreatedConnection

ConnectionNext ==
    \/ TokenResolves
    \/ onopen
    \/ onerror
    \/ ReconnectFires
    \/ close

ConnectionSpec == ConnectionInit /\ [][ConnectionNext]_vars

\* C33: once close() was called no stream connection is open or connecting
\* and no reconnect is scheduled, in every state that follows, whatever
\* close() was interleaved with (a pending token fetch, a pending reconnect
\* timer, an error event).
C33_ClosedStaysClosed ==
    adapter.isClosedManually =>
        /\ adapter.eventSource = "none"
        /\ ~adapter.reconnectTimeout

\* a step of onerror on a connection that was not closed
ErrorStep ==
    /\ ~adapter.isClosedManually /\ ~adapter'.isClosedManually
    /\ adapter.eventSource \in {"connecting", "open"}
    /\ adapter'.eventSource = "none"

\* C34: reconnects back off exponentially under a cap: the k-th reconnect
\* in a row (k = 0..4) is scheduled with a delay of 1000 * 2^k ms, at most 5
\* reconnects are scheduled without an onopen between them, onopen sets the
\* counter to 0, and the error that finds the cap reached calls onError and
\* schedules nothing, nor is anything scheduled after it.
C34_BackoffCapped ==
    [][/\ Len(adapter'.scheduled) = Len(adapter.scheduled) + 1 =>
              LET k == Len(adapter.scheduled)
              IN  /\ k \in 0..4
                  /\ adapter'.reconnectTimeout
                  /\ adapter'.delay = 1000 * (2 ^ k)
                  /\ adapter'.scheduled[k + 1] = adapter'.delay
       /\ Len(adapter'.scheduled) <= 5
       /\ adapter'.opens = adapter.opens + 1 => adapter'.reconnectAttempts = 0
       /\ (ErrorStep /\ Len(adapter.scheduled) = 5) =>
              /\ adapter'.errors = adapter.errors + 1
              /\ ~adapter'.reconnectTimeout
              /\ adapter'.scheduled = adapter.scheduled
       /\ (Len(adapter.scheduled) = 5 /\ adapter.errors > 0) =>
              /\ ~adapter'.reconnectTimeout
              /\ adapter'.scheduled = adapter.scheduled]_vars

\* after an open, five reconnects were scheduled, the last with 16 s, and the
\* sixth error was reported to onError
C34_CapReportedAfterOpen ==
    /\ adapter.mode = "conn" /\ ~adapter.isClosedManually
    /\ adapter.opens > 0
    /\ adapter.scheduled = <<1000, 2000, 4000, 8000, 16000>>
    /\ adapter.errors = 1 /\ adapter.eventSource = "none" /\ ~adapter.awaitingToken
    /\ ~adapter.reconnectTimeout

(***************************************************************************)
(* IdentitySpec: requests on the API-key route and on the user-session     *)
(* route, each with and without identity headers of the client's own       *)
(* making, handled one at a time.                                          *)
(***************************************************************************)
IdentityHeaders ==
    {"x-auth-mode", "x-funchat-user-id", "x-funchat-scopes", "x-funchat-api-key-id",
     "x-funchat-app-id"}

\* the value a client puts into an identity header of its request
ClientValue(name) == IF name = "x-funchat-scopes" THEN <<"admin:all">> ELSE "forged"

\* a request whose headers carry the client's value for each given name
WithClientHeaders(req, names) ==
    [req EXCEPT !.headers =
        [x \in (DOMAIN @) \cup names |-> IF x \in names THEN ClientValue(x) ELSE @[x]]]

IdentityPool ==
    { WithClientHeaders(req, names) :
        req \in { MkRequest("GET", PathChatMessages, Some(Key1), None, None),
                  MkRequest("GET", PathChatMessages, Some(Key2), None, None),
                  MkRequest("GET", PathV1Profiles, None, None, ValidAuth) },
        names \in { {}, IdentityHeaders } }

IdentityInit ==
    InitWith({ {Row1(2), Row2(TRUE, None, <<>>, <<"chat:read">>)} }, {None}, {NoProbe})

IdentityNext ==
    \/ Arrive(IdentityPool, MaxRequests, 1)
    \/ HandlerStep

IdentitySpec == IdentityInit /\ [][IdentityNext]_vars

\* the value the gateway derives from the verified credential of request i
\* for an identity header, none when the credential holds none
CredentialValue(i, name) ==
    IF reqs[i].route = "user"
    THEN CASE name = "x-auth-mode" -> Some("jwt")
           [] name = "x-funchat-user-id" -> Some(reqs[i].rl.identifier[2])
           [] name = "x-funchat-scopes" -> Some(USER_SCOPES)
           [] OTHER -> None
    ELSE LET keyData == Val(reqs[i].keyData)
         IN  CASE name = "x-auth-mode" -> Some("api_key")
               [] name = "x-funchat-user-id" -> Some(keyData.user_id)
               [] name = "x-funchat-scopes" -> Some(keyData.scopes)
               [] name = "x-funchat-api-key-id" -> Some(keyData.id)
               [] OTHER -> keyData.app_id

\* C35: every identity header that reaches the backend holds the value the
\* gateway derived from the verified credential; a value the client put
\* into such a header never reaches the backend, on either route.
C35_IdentityHeadersFromCredential ==
    \A k \in 1..Len(backendLog) :
        \A name \in IdentityHeaders \cap DOMAIN backendLog[k].headers :
            HeadersGet(backendLog[k].headers, name) = CredentialValue(backendLog[k].req, name)

(***************************************************************************)
(* QuotaSpec: a key whose id is the id of user u1 with a limit of 1, an    *)
(* inactive key, and requests that fail at each stage before the rate      *)
(* limiter or at it, handled one at a time.                               *)
(***************************************************************************)
\* a key record of user u1 whose own id is "u1" as well
RowSameId == KeyRow("u1", "u1", None, Key1, Salt1, <<"chat:read">>, <<>>, 1, TRUE, None)

QuotaPool ==
    { MkRequest("GET", PathChatMessages, Some(Key1), None, None),
      MkRequest("POST", PathChatMessages, Some(Key1), None, None),
      MkRequest("GET", PathChatMessages, Some(Key1TailMutated), None, None),
      MkRequest("GET", PathChatMessages, Some(Key2), None, None),
      MkRequest("GET", PathV1Profiles, None, None, ValidAuth),
      MkRequest("GET", PathV1Profiles, None, None, ExpiredAuth) }

QuotaInit ==
    InitWith({ {RowSameId, Row2(FALSE, None, <<>>, <<"chat:read">>)} }, {None}, {NoProbe})

QuotaNext ==
    \/ Arrive(QuotaPool, MaxRequests + 1, 1)
    \/ HandlerStep

QuotaSpec == QuotaInit /\ [][QuotaNext]_vars

\* handler i was answered by the gateway with a rejection
Rejected(i) ==
    /\ Returned(i)
    /\ Val(reqs[i].resp).kind = "envelope"
    /\ Val(reqs[i].resp).status \in {401, 403, 429}

\* the counter of the identity handler i presented: the kind of credential
\* and its id, in the window of the call
OwnCounter(i) ==
    << IF reqs[i].route = "user"
       THEN <<"user", Val(PresentedAuth(i)).token.sub>>
       ELSE <<"key", Val(reqs[i].keyData).id>>,
       reqs[i].rl.windowStart >>

\* the counters whose stored value differs before and after a step
ChangedCounters ==
    { k \in (DOMAIN rateLimit) \cup (DOMAIN rateLimit') :
        \/ k \notin DOMAIN rateLimit
        \/ k \notin DOMAIN rateLimit'
        \/ rateLimit[k] # rateLimit'[k] }

\* C36: a rejected request consumes no quota: the step that rejects a request
\* (credential, policy, scope or rate limit) changes no counter and a
\* rejected request has written none; a step that changes a counter is the
\* write of an admitted checkRateLimit call and changes the counter of that
\* call's own identity only, key u1 and user u1 being two identities.
C36_RejectionsConsumeNoQuota ==
    [][/\ \A i \in 1..Len(reqs') :
              Rejected(i)' => ~Admitted(i)' /\ (i > Len(reqs) \/ ~Rejected(i) => ChangedCounters = {})
       /\ ChangedCounters # {} =>
              \E i \in 1..Len(reqs) :
                  /\ reqs'[i] # reqs[i]
                  /\ Admitted(i)' /\ ~Rejected(i)'
                  /\ ChangedCounters = {OwnCounter(i)}]_vars

\* key u1 and user u1 were both admitted, each on a counter of its own, and a
\* further request of key u1 was rejected by the rate limiter
C36_SameIdCountedApart ==
    /\ <<<<"key", "u1">>, WindowStart(StartTime)>> \in DOMAIN rateLimit
    /\ <<<<"user", "u1">>, WindowStart(StartTime)>> \in DOMAIN rateLimit
    /\ rateLimit[<<<<"key", "u1">>, WindowStart(StartTime)>>].count = 1
    /\ rateLimit[<<<<"user", "u1">>, WindowStart(StartTime)>>].count = 1
    /\ \E i \in Handlers : Rejected(i) /\ Val(reqs[i].resp).status = 429

(***************************************************************************)
(* WindowSpec: key k1 with a limit of 1 or 2, its requests handled one at *)
(* a time while the clock passes from the last second of one window into   *)
(* the next.                                                               *)
(***************************************************************************)
WindowPool ==
    { MkRequest("GET", PathChatMessages, Some(Key1), None, None) }

WindowInit == InitWith({ {Row1(limit)} : limit \in {1, 2} }, {None}, {NoProbe})

WindowNext ==
    \/ Arrive(WindowPool, MaxRequests + 1, 1)
    \/ Step

WindowSpec == WindowInit /\ [][WindowNext]_vars

\* the window a time falls into: the greatest multiple of the window size
\* that is not after it
WindowOf(t) ==
    CHOOSE w \in { k * RATE_LIMIT_WINDOW : k \in 0..(t \div RATE_LIMIT_WINDOW) } :
        w <= t /\ t < w + RATE_LIMIT_WINDOW

\* handler i's call of checkRateLimit is the first of its identity in the
\* window of the call
FirstInWindow(i) ==
    /\ Limited(i)
    /\ \A j \in 1..(i - 1) :
          Limited(j) =>
              \/ reqs[j].rl.identifier # reqs[i].rl.identifier
              \/ WindowOf(reqs[j].rl.now) # WindowOf(reqs[i].rl.now)

\* C37: windows are aligned buckets that do not overlap: a call's window
\* starts at now - (now mod window size) and ends one window size later, and
\* the first call of an identity in a window is admitted with remaining =
\* limit - 1 whatever the identity's count in the window before was.
C37_NewWindowStartsFresh ==
    \A i \in Handlers :
        Limited(i) =>
            LET rl == reqs[i].rl
                result == Val(reqs[i].rlResult)
            IN  /\ rl.windowStart = WindowOf(rl.now)
                /\ result.resetAt = rl.windowStart + RATE_LIMIT_WINDOW
                /\ FirstInWindow(i) =>
                       result.allowed /\ result.remaining = rl.limit - 1

\* key k1 was rejected at the end of one window and its next request, in
\* the window after it, was admitted with remaining = limit - 1
C37_RejectedThenAdmittedNextWindow ==
    \E i, j \in Handlers :
        /\ Limited(i) /\ Limited(j) /\ i < j
        /\ reqs[i].rl.identifier = reqs[j].rl.identifier
        /\ ~Val(reqs[i].rlResult).allowed
        /\ reqs[j].rl.windowStart = reqs[i].rl.windowStart + RATE_LIMIT_WINDOW
        /\ FirstInWindow(j)
        /\ Val(reqs[j].rlResult).allowed
        /\ Val(reqs[j].rlResult).remaining = reqs[j].rl.limit - 1

(***************************************************************************)
(* ApiClient.request: one call, from its entry to its return.  adapter     *)
(* holds                                                                    *)
(*   maxRetries   config.retries ?? DEFAULT_RETRIES                        *)
(*   attempt      the loop variable                                        *)
(*   pc           "entry", "attempt" (at getAccessToken / fetch), "sleep", *)
(*                "done"                                                   *)
(*   lastError    the code of lastError, none while it is null             *)
(*   result       the code of the ApiResponse returned ("OK" when ok)      *)
(*   outcomes     what each turn of the loop met (history)                 *)
(*   fetches      the calls of fetch (history)                             *)
(*   slept        the durations given to sleep, in ms (history)            *)
(*   unauthorized, reported   the calls of onUnauthorized and of onError   *)
(***************************************************************************)
\* the greatest value of config.retries tried
MaxConfigRetries == 3

DEFAULT_RETRIES == 3

RETRY_DELAY_MS == 1000

Digits == <<"0", "1", "2", "3", "4", "5", "6", "7", "8", "9">>

IsDigit(c) == \E d \in 1..10 : Digits[d] = c

DigitValue(c) == (CHOOSE d \in 1..10 : Digits[d] = c) - 1

\* the value of the leading digits of a text, read from the left
RECURSIVE LeadingNumber(_, _)
LeadingNumber(text, acc) ==
    IF text = <<>> \/ ~IsDigit(Head(text)) THEN acc
    ELSE LeadingNumber(Tail(text), 10 * acc + DigitValue(Head(text)))

\* parseInt(text, 10) of a text without sign or leading blanks: none for NaN
ParseInt(text) ==
    IF text = <<>> \/ ~IsDigit(Head(text)) THEN None ELSE Some(LeadingNumber(text, 0))

\* the Retry-After headers of a 429 response: absent, seconds, an HTTP date
RetryAfterHeaders == { None, Some(<<"0">>), Some(<<"7">>), Some(<<"1", "2">>),
                       Some(<<"W", "e", "d", ",", " ", "2", "1">>) }

\* what one turn of the loop meets: getAccessToken throws, fetch rejects
\* (TypeError), the timeout aborts the fetch, or a response arrives
Outcomes ==
    { [kind |-> k, status |-> 0, retryAfter |-> None] : k \in {"token_throws", "network", "abort"} }
    \cup { [kind |-> "response", status |-> s, retryAfter |-> None] : s \in {200, 401, 404, 500, 503} }
    \cup { [kind |-> "response", status |-> 429, retryAfter |-> h] : h \in RetryAfterHeaders }

\* setTimeout(resolve, ms): a NaN delay is taken as 0
SleepMs(ms) == IF IsSome(ms) THEN Val(ms) ELSE 0

\* parseInt(response.headers.get('Retry-After') || '60', 10) * 1000
RetryAfterMs(header) ==
    LET retryAfter == ParseInt(IF Truthy(header) THEN Val(header) ELSE <<"6", "0">>)
    IN  IF IsSome(retryAfter) THEN Some(Val(retryAfter) * 1000) ELSE None

\* RETRY_DELAY_MS * Math.pow(2, attempt)
BackoffMs(attempt) == RETRY_DELAY_MS * Pow2(attempt)

\* the code of lastError the catch block sets for what was thrown
CaughtCode(kind) ==
    IF kind = "abort" THEN "TIMEOUT"
    ELSE IF kind = "network" THEN "NETWORK_ERROR"
    ELSE "UNKNOWN_ERROR"

\* `return` of request with the given code
Return(a, code) == [a EXCEPT !.pc = "done", !.result = Some(code)]

\* `await this.sleep(ms); continue`
SleepThenContinue(a, ms) == [a EXCEPT !.pc = "sleep", !.slept = Append(@, ms)]

\* the end of a turn that neither returned nor slept: attempt++ and the loop
\* test, then the return after the loop
NextTurn(a) ==
    IF a.attempt + 1 < a.maxRetries
    THEN [a EXCEPT !.attempt = @ + 1, !.pc = "attempt"]
    ELSE Return([a EXCEPT !.attempt = @ + 1],
                IF IsSome(a.lastError) THEN Val(a.lastError) ELSE "UNKNOWN_ERROR")

\* the catch block of the loop body
Caught(a, kind) ==
    LET a1 == [a EXCEPT !.lastError = Some(CaughtCode(kind))]
    IN  IF a.attempt < a.maxRetries - 1
        THEN SleepThenContinue(a1, BackoffMs(a.attempt))
        ELSE NextTurn(a1)

\* the loop body once fetch answered with a response
Responded_Retries401(a, o) ==
    IF o.status = 401 /\ a.attempt >= a.maxRetries - 1
    THEN Return([a EXCEPT !.unauthorized = @ + 1], "UNAUTHORIZED")
    ELSE IF o.status = 429 \/ o.status = 401
    THEN IF a.attempt < a.maxRetries - 1
         THEN SleepThenContinue(a, SleepMs(RetryAfterMs(o.retryAfter)))
         ELSE Return(a, "RATE_LIMITED")
    ELSE IF o.status >= 500 /\ a.attempt < a.maxRetries - 1
    THEN SleepThenContinue(a, BackoffMs(a.attempt))
    ELSE IF o.status = 200 THEN Return(a, "OK")
    ELSE Return([a EXCEPT !.reported = @ + 1], "HTTP_ERROR")

Responded(a, o) ==
    IF o.status = 401
    THEN Return([a EXCEPT !.unauthorized = @ + 1], "UNAUTHORIZED")
    ELSE IF o.status = 429
    THEN IF a.attempt < a.maxRetries - 1
         THEN SleepThenContinue(a, SleepMs(RetryAfterMs(o.retryAfter)))
         ELSE Return(a, "RATE_LIMITED")
    ELSE IF o.status >= 500 /\ a.attempt < a.maxRetries - 1
    THEN SleepThenContinue(a, BackoffMs(a.attempt))
    ELSE IF o.status = 200 THEN Return(a, "OK")
    ELSE Return([a EXCEPT !.reported = @ + 1], "HTTP_ERROR")

\* request(...) is called and runs to its first await (or to its return when
\* the loop is not entered)
CalledRequest(maxRetries) ==
    LET a == [ mode |-> "api", maxRetries |-> maxRetries, attempt |-> 0, pc |-> "entry",
               lastError |-> None, result |-> None, outcomes |-> <<>>, fetches |-> 0,
               slept |-> <<>>, unauthorized |-> 0, reported |-> 0 ]
    IN  IF 0 < maxRetries THEN [a EXCEPT !.pc = "attempt"] ELSE Return(a, "UNKNOWN_ERROR")

\* one turn of the loop, from getAccessToken to its return, sleep or end
Attempt ==
    /\ adapter.mode = "api"
    /\ adapter.pc = "attempt"
    /\ \E o \in Outcomes :
          LET a == [adapter EXCEPT !.outcomes = Append(@, o),
                                   !.fetches = IF o.kind = "token_throws" THEN @ ELSE @ + 1]
          IN  adapter' = IF o.kind = "response" THEN Responded(a, o) ELSE Caught(a, o.kind)
    /\ ClientUnchanged

\* the sleep resolves: continue
sleepResolves ==
    /\ adapter.mode = "api"
    /\ adapter.pc = "sleep"
    /\ adapter' = [adapter EXCEPT !.attempt = @ + 1, !.pc = "attempt"]
    /\ ClientUnchanged

RequestInit ==
    /\ InitGateway({ {Row1(1)} }, {None}, {NoProbe})
    /\ streams = NoStreams
    /\ messageRows = <<>>
    /\ adapter \in { CalledRequest(n) : n \in 0..MaxConfigRetries }

RequestNext ==
    \/ Attempt
    \/ sleepResolves

\* fetch settles (by answer, rejection or the timeout's abort) and timers fire
RequestFairness == WF_vars(Attempt) /\ WF_vars(sleepResolves)

RequestSpec == RequestInit /\ [][RequestNext]_vars /\ RequestFairness

\* a turn's outcome after which request tries again while turns are left
Retriable(o) == o.kind # "response" \/ o.status = 429 \/ o.status >= 500

\* the seconds a Retry-After header states, for a header of digits
StatedSeconds(header) ==
    CHOOSE n \in 0..99 : ParseInt(Val(header)) = Some(n)

\* the wait the turn k of the loop is to be followed by
DueWait(k) ==
    LET o == adapter.outcomes[k]
    IN  IF o.kind = "response" /\ o.status = 429
        THEN IF o.retryAfter = None THEN 60 * 1000 ELSE StatedSeconds(o.retryAfter) * 1000
        ELSE RETRY_DELAY_MS * (2 ^ (k - 1))

\* the Retry-After header of turn k, if it has one, states seconds
SecondsStated(k) ==
    LET o == adapter.outcomes[k]
    IN  o.retryAfter # None => \A j \in 1..Len(Val(o.retryAfter)) : IsDigit(Val(o.retryAfter)[j])

RequestReturned == adapter.pc = "done"

RequestSafe ==
    LET a == adapter
        n == Len(a.outcomes)
    IN  /\ a.fetches <= a.maxRetries /\ n <= a.maxRetries /\ a.fetches <= n
        /\ RequestReturned => IsSome(a.result)
        /\ \A k \in 1..n :
              (a.outcomes[k].kind = "response" /\ a.outcomes[k].status = 401) =>
                  /\ k = n /\ RequestReturned /\ a.result = Some("UNAUTHORIZED")
                  /\ a.unauthorized = 1
                  /\ Len(a.slept) = n - 1
        /\ \A k \in 1..Len(a.slept) :
              /\ k <= n /\ Retriable(a.outcomes[k])
              /\ SecondsStated(k) => a.slept[k] = DueWait(k)
        /\ (RequestReturned /\ n > 0 /\ Retriable(a.outcomes[n])) =>
              /\ n = a.maxRetries
              /\ Len(a.slept) = n - 1
              /\ (a.outcomes[n].kind = "response" /\ a.outcomes[n].status = 429) =>
                     a.result = Some("RATE_LIMITED")
              /\ a.result # Some("OK")

C40_WildcardMatchesAtBoundary ==
    WildcardProbed =>
        LET origin == Val(probe.origin)
            domain == SubSeq(probe.allowedOrigins[1], 3, Len(probe.allowedOrigins[1]))
        IN  probe.result =>
                \/ HostOf(origin) = domain
                \/ HasSuffix(HostOf(origin), <<".">> \o domain)

(***************************************************************************)
(* OutboundSpec: the message list alone: sends, their HTTP outcomes, the   *)
(* echoes pushed by a stream that opens and stays up, and retries.         *)
(***************************************************************************)
OutboundInit ==
    /\ InitGateway({ {Row1(1)} }, {None}, {NoProbe})
    /\ streams = NoStreams
    /\ messageRows = <<>>
    /\ adapter = MountedAdapter

OutboundNext ==
    \/ SendMessage
    \/ \E k \in 1..MaxSends : ServerStores(k)
    \/ \E k \in 1..MaxSends : SendSettles(k)
    \/ StreamPush
    \/ RetryMessage
    \/ ConnOpens

OutboundSpec == OutboundInit /\ [][OutboundNext]_vars

\* the states of an entry of the message list
Pending(m) == m.sending /\ ~m.failed

Confirmed(m) == ~m.sending /\ ~m.failed

Failed(m) == ~m.sending /\ m.failed

\* the ids of the entries of a message list
IdsOf(list) == { list[j].id : j \in 1..Len(list) }

\* C38: an outbound message goes from pending to confirmed or to failed and
\* no further: no entry is sending and failed at once; an entry under a
\* temporary id is pending or failed and one under a server id is confirmed;
\* from one state to the next a confirmed entry stays confirmed and a failed
\* entry stays failed, under the same id, unless retryMessage removed it.
C38_PendingThenConfirmedOrFailed ==
    [][/\ \A j \in 1..Len(adapter'.messages) :
              LET m == adapter'.messages[j]
              IN  /\ ~(m.sending /\ m.failed)
                  /\ IF m.id[1] = "temp" THEN Pending(m) \/ Failed(m) ELSE Confirmed(m)
       /\ \A i \in 1..Len(adapter.messages), j \in 1..Len(adapter'.messages) :
              adapter.messages[i].id = adapter'.messages[j].id =>
                  /\ Confirmed(adapter.messages[i]) => Confirmed(adapter'.messages[j])
                  /\ Failed(adapter.messages[i]) => Failed(adapter'.messages[j])
       /\ \A i \in 1..Len(adapter.messages) :
              (Failed(adapter.messages[i]) /\ adapter.messages[i].id \notin IdsOf(adapter'.messages)) =>
                  adapter'.retried = Append(adapter.retried, adapter.messages[i].id)
       /\ \A i \in 1..Len(adapter.messages) :
              Confirmed(adapter.messages[i]) => adapter.messages[i].id \in IdsOf(adapter'.messages)]_vars

\* the first send failed and was retried, and the resend is confirmed
C38_RetriedThenConfirmed ==
    /\ adapter.mode = "client"
    /\ adapter.retried = <<TempId(1)>>
    /\ TempId(1) \notin IdsOf(adapter.messages)
    /\ \E j \in 1..Len(adapter.messages) :
          adapter.messages[j].logical = 2 /\ Confirmed(adapter.messages[j])

=============================================================================
